---------------------------- MODULE Spec2Model ----------------------------
(***************************************************************************)
(* Model of the configuration validators of create-kurdemy-app.            *)
(*                                                                         *)
(* The repository holds two generations of lib/validator.js:               *)
(*   - src/lib/validator.js   : the current one (no database / orm field)  *)
(*   - src/unnamed/part_001   : the legacy one (database and orm checked)  *)
(* Both are modelled, operator by operator, from their source.             *)
(*                                                                         *)
(* JavaScript values are modelled as records [kind, val] so that the       *)
(* string 'true', the number 1 and the boolean true stay different values, *)
(* as they are for typeof, for Array.prototype.includes and for !==.       *)
(***************************************************************************)
EXTENDS Naturals, Sequences, FiniteSets, TLC

VARIABLES
    config,            \* the argument handed to validateOptions
    name,              \* the argument handed to validateProjectName
    validation,        \* outcome of validateOptions, src/lib/validator.js
    validationLegacy,  \* outcome of validateOptions, src/unnamed/part_001
    nameValidation,       \* outcome of validateProjectName, src/lib/validator.js
    nameValidationLegacy, \* outcome of validateProjectName, src/unnamed/part_001
    runtime,           \* the Node.js release the process runs on
    envValidation,     \* outcome of validateEnvironmentSetup
    recommendations,       \* outcome of getRecommendations, src/lib/validator.js
    recommendationsLegacy, \* outcome of getRecommendations, src/unnamed/part_001
    entryPoint,        \* the CLI that runs: "part_006" or "bin"
    validatorModule,   \* what part_006's require('../lib/validator') resolves to
    argv,              \* the first command-line argument
    overwrite,         \* main's overwrite: the answer to the overwrite question
    pc,                \* where main() stands
    projectName,       \* main's projectName
    dirExists,         \* whether projectPath exists on disk
    removedDirectory,  \* whether main has removed projectPath
    cliConfig,         \* main's config
    cliValidation,     \* main's validation
    generateCall,      \* the arguments generateProject was called with
    generation,        \* outcome of generateProject
    installation,      \* outcome of installDependencies
    stdout,            \* the lines main has printed
    exitCode,          \* the exit code of the process, once it has ended
    generator,         \* the generateProject that runs: "lib/generator.js", "part_000" or "bin"
    genName,           \* generateProject's projectName
    genConfig,         \* generateProject's config
    genLog,            \* the steps generateProject has started, in order
    genRunning,        \* whether the last started step is still awaited
    genDirs,           \* the directories under projectPath (<<>> is projectPath)
    genFiles,          \* the files under projectPath
    packageJson,       \* the content of projectPath/package.json
    genResult,         \* outcome of generateProject
    installerCall,     \* the installer function called and its packageManager
    execaOutcome,      \* how the spawned package-manager command ends
    execaCommand,      \* the command handed to execa
    installerLog,      \* the warnings the installer has printed
    installerResult    \* outcome of the installer function

validatorVars == <<config, name, validation, validationLegacy,
                   nameValidation, nameValidationLegacy>>
envVars == <<runtime, envValidation>>
recVars == <<recommendations, recommendationsLegacy>>

cliVars == <<entryPoint, validatorModule, argv, overwrite, pc, projectName, dirExists,
             removedDirectory, cliConfig, cliValidation, generateCall, generation,
             installation, stdout, exitCode>>

genVars == <<generator, genName, genConfig, genLog, genRunning, genDirs, genFiles,
             packageJson, genResult>>
installerVars == <<installerCall, execaOutcome, execaCommand, installerLog,
                   installerResult>>

vars == <<validatorVars, envVars, recVars, cliVars, genVars, installerVars>>

-----------------------------------------------------------------------------
(* JavaScript values *)

JSTrue      == [kind |-> "boolean",   val |-> "true"]
JSFalse     == [kind |-> "boolean",   val |-> "false"]
JSNull      == [kind |-> "null",      val |-> "null"]
JSUndefined == [kind |-> "undefined", val |-> "undefined"]
JSString(s) == [kind |-> "string",    val |-> s]
JSNumber(s) == [kind |-> "number",    val |-> s]   \* s: the decimal literal

\* typeof v
TypeOf(v) == IF v.kind = "null" THEN "object" ELSE v.kind

\* ToBoolean(v), as `config.auth && ...` and `!x` apply it
Truthy(v) ==
    CASE v.kind = "boolean" -> v.val = "true"
      [] v.kind = "number"  -> v.val \notin {"0", "NaN"}
      [] v.kind = "string"  -> v.val # ""
      [] OTHER              -> FALSE

\* Array.prototype.includes on an array of string literals (SameValueZero)
Includes(choices, v) == v.kind = "string" /\ v.val \in choices

\* Append msg to errors when cond holds: `if (cond) errors.push(msg)`
PushIf(errors, cond, msg) == IF cond THEN Append(errors, msg) ELSE errors

-----------------------------------------------------------------------------
(* The outcome of a call: a returned value or a thrown exception.          *)

NotCalled     == [status |-> "not called"]
Returned(v)   == [status |-> "returned", value |-> v]
Threw(e)      == [status |-> "threw", exception |-> e]

\* config.<field> on a null or undefined config throws a TypeError
IsObject(c) == c.kind = "object"


-----------------------------------------------------------------------------
(* validateOptions: the allowed-value arrays and the messages              *)

FrontendChoices       == {"nextjs", "react"}
DatabaseChoices       == {"postgresql", "mysql", "sqlite", "sqlserver"}
OrmChoices            == {"prisma", "drizzle"}
PackageManagerChoices == {"npm", "yarn", "pnpm"}
booleanOptions        == <<"trpc", "auth", "tailwind">>

FrontendMsg   == "Invalid frontend choice. Must be \"nextjs\" or \"react\"."
DatabaseMsg   == "Invalid database choice. Must be one of: postgresql, mysql, sqlite, sqlserver."
OrmMsg        == "Invalid ORM choice. Must be \"prisma\" or \"drizzle\"."
PackageManagerMsg == "Invalid package manager. Must be \"npm\", \"yarn\", or \"pnpm\"."
BooleanMsg(option) == option \o " must be a boolean value."
AuthFrontendMsg == "NextAuth.js requires Next.js as the frontend framework."
OrmDatabaseMsg  == "Drizzle ORM does not fully support SQL Server yet. Please use Prisma for SQL Server."

\* `if (!['nextjs', 'react'].includes(config.frontend)) errors.push(...)`
CheckFrontend(errors, f) ==
    PushIf(errors, ~Includes(FrontendChoices, f.frontend), FrontendMsg)

\* `if (!['postgresql', ...].includes(config.database)) errors.push(...)`
CheckDatabase(errors, f) ==
    PushIf(errors, ~Includes(DatabaseChoices, f.database), DatabaseMsg)

\* `if (!['prisma', 'drizzle'].includes(config.orm)) errors.push(...)`
CheckOrm(errors, f) ==
    PushIf(errors, ~Includes(OrmChoices, f.orm), OrmMsg)

\* mutant: the package-manager check pushes the frontend message (copy-paste slip)
CheckPackageManager_WrongMessage(errors, f) ==
    PushIf(errors, ~Includes(PackageManagerChoices, f.packageManager),
           FrontendMsg)

\* `if (!['npm', 'yarn', 'pnpm'].includes(config.packageManager)) errors.push(...)`
CheckPackageManager(errors, f) ==
    PushIf(errors, ~Includes(PackageManagerChoices, f.packageManager),
           PackageManagerMsg)

\* mutant: `!config[option]` in place of the typeof test
NotBoolean_Falsy(v) == ~Truthy(v)

\* mutant: a missing option is let through
NotBoolean_AllowsMissing(v) == v.kind # "undefined" /\ TypeOf(v) # "boolean"

\* `typeof config[option] !== 'boolean'`
NotBoolean(v) == TypeOf(v) # "boolean"

\* mutant: the loop breaks after the first option that is not a boolean
RECURSIVE CheckBooleansFrom_Break(_, _, _)
CheckBooleansFrom_Break(errors, f, i) ==
    IF i > Len(booleanOptions) THEN errors
    ELSE IF NotBoolean(f[booleanOptions[i]])
         THEN Append(errors, BooleanMsg(booleanOptions[i]))
         ELSE CheckBooleansFrom_Break(errors, f, i + 1)

\* `for (const option of booleanOptions) if (typeof config[option] !== 'boolean') ...`
\* the loop, unrolled from its i-th option on
RECURSIVE CheckBooleansFrom(_, _, _)
CheckBooleansFrom(errors, f, i) ==
    IF i > Len(booleanOptions) THEN errors
    ELSE CheckBooleansFrom(
             PushIf(errors, NotBoolean(f[booleanOptions[i]]),
                    BooleanMsg(booleanOptions[i])),
             f, i + 1)

CheckBooleans(errors, f) == CheckBooleansFrom(errors, f, 1)

\* mutant: the comparison is inverted, `=== 'nextjs'`
AuthNeedsNext_Inverted(f) == Truthy(f.auth) /\ f.frontend = JSString("nextjs")

\* `config.auth && config.frontend !== 'nextjs'`
AuthNeedsNext(f) == Truthy(f.auth) /\ f.frontend # JSString("nextjs")

\* `if (config.auth && config.frontend !== 'nextjs') errors.push(...)`
CheckAuthFrontend(errors, f) == PushIf(errors, AuthNeedsNext(f), AuthFrontendMsg)

\* mutant: the database literal is misspelt
DrizzleOnSqlServer_Typo(f) ==
    f.orm = JSString("drizzle") /\ f.database = JSString("mssql")

\* `config.orm === 'drizzle' && config.database === 'sqlserver'`
DrizzleOnSqlServer(f) ==
    f.orm = JSString("drizzle") /\ f.database = JSString("sqlserver")

\* `if (config.orm === 'drizzle' && config.database === 'sqlserver') errors.push(...)`
CheckOrmDatabase(errors, f) ==
    PushIf(errors, DrizzleOnSqlServer(f), OrmDatabaseMsg)

\* mutant: error is the last message instead of the first
ValidationResult_LastError(errors) ==
    [valid  |-> Len(errors) = 0,
     errors |-> errors,
     error  |-> IF Len(errors) > 0 THEN JSString(errors[Len(errors)]) ELSE JSNull]

\* `return { valid: errors.length === 0, errors, error: errors.length > 0 ? errors[0] : null }`
ValidationResult(errors) ==
    [valid  |-> Len(errors) = 0,
     errors |-> errors,
     error  |-> IF Len(errors) > 0 THEN JSString(errors[1]) ELSE JSNull]

\* mutant: the current validator still checks database and orm
validateOptionsErrors_ChecksDatabase(f) ==
    CheckAuthFrontend(
      CheckBooleans(
        CheckPackageManager(
          CheckOrm(
            CheckDatabase(
              CheckFrontend(<<>>, f), f), f), f), f), f)

\* validateOptions of src/lib/validator.js, on the fields f of an object
validateOptionsErrors(f) ==
    CheckAuthFrontend(
      CheckBooleans(
        CheckPackageManager(
          CheckFrontend(<<>>, f), f), f), f)

\* mutant: the compatibility checks run before the boolean loop
validateOptionsLegacyErrors_Reordered(f) ==
    CheckBooleans(
      CheckOrmDatabase(
        CheckAuthFrontend(
          CheckPackageManager(
            CheckOrm(
              CheckDatabase(
                CheckFrontend(<<>>, f), f), f), f), f), f), f)

\* validateOptions of src/unnamed/part_001, on the fields f of an object
validateOptionsLegacyErrors(f) ==
    CheckOrmDatabase(
      CheckAuthFrontend(
        CheckBooleans(
          CheckPackageManager(
            CheckOrm(
              CheckDatabase(
                CheckFrontend(<<>>, f), f), f), f), f), f), f)

\* validateOptions(config), src/lib/validator.js: reading config.frontend of a
\* null or undefined config throws
validateOptions(c) ==
    IF IsObject(c) THEN Returned(ValidationResult(validateOptionsErrors(c.fields)))
    ELSE Threw("TypeError")

\* validateOptions(config), src/unnamed/part_001
validateOptionsLegacy(c) ==
    IF IsObject(c)
    THEN Returned(ValidationResult(validateOptionsLegacyErrors(c.fields)))
    ELSE Threw("TypeError")

-----------------------------------------------------------------------------
(* validateProjectName                                                     *)
(*                                                                         *)
(* A string is the sequence of its characters (UTF-16 code units), each a  *)
(* one-character string; a value that is not a string keeps the text of    *)
(* its literal in chars.  A message is the sequence of the fragments whose *)
(* concatenation it is, so that a template literal keeps its ${name}.      *)

NameString(cs) == [kind |-> "string", chars |-> cs]

\* ToBoolean(name), as `!name` applies it
NameTruthy(n) ==
    CASE n.kind = "string"  -> Len(n.chars) > 0
      [] n.kind = "number"  -> n.chars \notin {<<"0">>, <<"N", "a", "N">>}
      [] n.kind = "boolean" -> n.chars = <<"t", "r", "u", "e">>
      [] n.kind = "object"  -> TRUE
      [] OTHER              -> FALSE

LowerLetters == <<"a", "b", "c", "d", "e", "f", "g", "h", "i", "j", "k", "l", "m", "n", "o", "p", "q", "r", "s", "t", "u", "v", "w", "x", "y", "z">>
UpperLetters == <<"A", "B", "C", "D", "E", "F", "G", "H", "I", "J", "K", "L", "M", "N", "O", "P", "Q", "R", "S", "T", "U", "V", "W", "X", "Y", "Z">>
Digits == {"0", "1", "2", "3", "4", "5", "6", "7", "8", "9"}

\* the letters of a sequence, as a set
Range(seq) == {seq[i] : i \in 1..Len(seq)}

\* String.prototype.toLowerCase on one character of the modelled alphabet
ToLowerChar(c) ==
    IF \E i \in 1..Len(UpperLetters) : UpperLetters[i] = c
    THEN LowerLetters[CHOOSE i \in 1..Len(UpperLetters) : UpperLetters[i] = c]
    ELSE c

\* name.toLowerCase()
ToLowerCase(cs) == [i \in 1..Len(cs) |-> ToLowerChar(cs[i])]

\* one character against the class [a-z0-9_.-] under the i flag
InNameClass(c) ==
    LET class == Range(LowerLetters) \cup Digits \cup {"_", ".", "-"}
    IN  c \in class \/ ToLowerChar(c) \in class

\* mutant: the pattern has lost its anchors, /[a-z0-9_.-]+/i
NameRegexTest_Unanchored(cs) == \E i \in 1..Len(cs) : InNameClass(cs[i])

\* /^[a-z0-9_.-]+$/i.test(name)
NameRegexTest(cs) == Len(cs) >= 1 /\ \A i \in 1..Len(cs) : InNameClass(cs[i])

\* name.startsWith(prefix), prefix one character
StartsWith(cs, prefix) == Len(cs) >= 1 /\ cs[1] = prefix

MaxNameLength == 214

reservedNames ==
    <<<<"n", "o", "d", "e", "_", "m", "o", "d", "u", "l", "e", "s">>,
      <<"p", "a", "c", "k", "a", "g", "e", ".", "j", "s", "o", "n">>,
      <<"p", "a", "c", "k", "a", "g", "e", "-", "l", "o", "c", "k", ".", "j", "s", "o", "n">>,
      <<"y", "a", "r", "n", ".", "l", "o", "c", "k">>,
      <<"p", "n", "p", "m", "-", "l", "o", "c", "k", ".", "y", "a", "m", "l">>,
      <<".", "g", "i", "t">>,
      <<".", "e", "n", "v">>,
      <<"s", "r", "c">>,
      <<"d", "i", "s", "t">>,
      <<"b", "u", "i", "l", "d">>>>

RequiredMsg == <<"Project name is required and must be a string.">>
EmptyMsg    == <<"Project name cannot be empty.">>
TooLongMsg  == <<"Project name is too long (max 214 characters).">>
CharsMsg    == <<"Project name can only contain letters, numbers, hyphens, underscores, and dots.">>
LeadingMsg  == <<"Project name cannot start with a dot or hyphen.">>
\* `"${name}" is a reserved name and cannot be used as a project name.`
ReservedMsg(cs) ==
    <<"\"">> \o cs \o <<"\" is a reserved name and cannot be used as a project name.">>

\* mutant: the accepting return carries `error: null`
NameOk_WithNullError == [valid |-> TRUE, error |-> JSNull]

NameError(msg) == [valid |-> FALSE, error |-> msg]
NameOk         == [valid |-> TRUE]

\* mutant: only the typeof test, `typeof name !== 'string'`
NameMissing_TypeOnly(n) == n.kind # "string"

\* `!name || typeof name !== 'string'`
NameMissing(n) == ~NameTruthy(n) \/ n.kind # "string"

\* mutant: `name.length >= 214`
NameTooLong_OffByOne(cs) == Len(cs) >= MaxNameLength

\* `name.length > 214`
NameTooLong(cs) == Len(cs) > MaxNameLength

\* `name.startsWith('.') || name.startsWith('-')`
NameLeadingDotOrHyphen(cs) == StartsWith(cs, ".") \/ StartsWith(cs, "-")

\* mutant: `reservedNames.includes(name)`, without toLowerCase
NameReserved_CaseSensitive(cs) == cs \in Range(reservedNames)

\* `reservedNames.includes(name.toLowerCase())`
NameReserved(cs) == ToLowerCase(cs) \in Range(reservedNames)

\* mutant: the character test runs before the length test
validateProjectNameResult_RegexFirst(n) ==
    IF NameMissing(n) THEN NameError(RequiredMsg)
    ELSE IF Len(n.chars) < 1 THEN NameError(EmptyMsg)
    ELSE IF ~NameRegexTest(n.chars) THEN NameError(CharsMsg)
    ELSE IF NameTooLong(n.chars) THEN NameError(TooLongMsg)
    ELSE IF NameLeadingDotOrHyphen(n.chars) THEN NameError(LeadingMsg)
    ELSE IF NameReserved(n.chars) THEN NameError(ReservedMsg(n.chars))
    ELSE NameOk

\* the body of validateProjectName, one early return after the other
validateProjectNameResult(n) ==
    IF NameMissing(n) THEN NameError(RequiredMsg)
    ELSE IF Len(n.chars) < 1 THEN NameError(EmptyMsg)
    ELSE IF NameTooLong(n.chars) THEN NameError(TooLongMsg)
    ELSE IF ~NameRegexTest(n.chars) THEN NameError(CharsMsg)
    ELSE IF NameLeadingDotOrHyphen(n.chars) THEN NameError(LeadingMsg)
    ELSE IF NameReserved(n.chars) THEN NameError(ReservedMsg(n.chars))
    ELSE NameOk

\* validateProjectName(name), src/lib/validator.js
validateProjectName(n) == Returned(validateProjectNameResult(n))

\* validateProjectName(name), src/unnamed/part_001: the same text
validateProjectNameLegacy(n) == Returned(validateProjectNameResult(n))

-----------------------------------------------------------------------------
(* validateEnvironmentSetup, src/lib/validator.js                          *)
(*                                                                         *)
(* The runtime is a Node.js release [major, minor, patch, tag]; its        *)
(* process.version is the string "v<major>.<minor>.<patch><tag>".          *)

DigitChars == <<"0", "1", "2", "3", "4", "5", "6", "7", "8", "9">>

\* the decimal numeral of n
RECURSIVE Decimal(_)
Decimal(n) ==
    IF n < 10 THEN <<DigitChars[n + 1]>>
    ELSE Decimal(n \div 10) \o <<DigitChars[(n % 10) + 1]>>

\* process.version of a release
ProcessVersion(rt) ==
    <<"v">> \o Decimal(rt.major) \o <<".">> \o Decimal(rt.minor)
            \o <<".">> \o Decimal(rt.patch) \o rt.tag

\* str.slice(1)
Slice1(cs) == SubSeq(cs, 2, Len(cs))

\* str.split('.')[0]: the text before the first dot, all of it if there is none
SplitDotFirst(cs) ==
    IF \E i \in 1..Len(cs) : cs[i] = "."
    THEN SubSeq(cs, 1, (CHOOSE i \in 1..Len(cs) :
                           cs[i] = "." /\ \A j \in 1..(i - 1) : cs[j] # ".") - 1)
    ELSE cs

DigitValue(c) == (CHOOSE i \in 1..10 : DigitChars[i] = c) - 1

\* the value of the longest prefix of decimal digits, left to right
RECURSIVE ParseDigits(_, _, _)
ParseDigits(cs, i, acc) ==
    IF i > Len(cs) \/ cs[i] \notin Digits THEN acc
    ELSE ParseDigits(cs, i + 1, acc * 10 + DigitValue(cs[i]))

\* parseInt(str) on a string without sign, blanks or radix prefix: NaN when it
\* does not start with a digit
ParseInt(cs) ==
    IF Len(cs) = 0 \/ cs[1] \notin Digits THEN [nan |-> TRUE, value |-> 0]
    ELSE [nan |-> FALSE, value |-> ParseDigits(cs, 1, 0)]

\* `parseInt(nodeVersion.slice(1).split('.')[0])`
MajorVersion(nodeVersion) == ParseInt(SplitDotFirst(Slice1(nodeVersion)))

MinNodeMajor == 16

\* mutant: `majorVersion <= 16`
NodeTooOld_OffByOne(majorVersion) ==
    ~majorVersion.nan /\ majorVersion.value <= MinNodeMajor

\* `majorVersion < 16`: false when majorVersion is NaN
NodeTooOld(majorVersion) == ~majorVersion.nan /\ majorVersion.value < MinNodeMajor

\* 'Node.js 16 or higher is required. Current version: ' + nodeVersion
NodeRequiredMsg(nodeVersion) ==
    <<"Node.js 16 or higher is required. Current version: ">> \o nodeVersion

\* `return { valid: requirements.length === 0, requirements, error: ... }`
EnvironmentResult(requirements) ==
    [valid        |-> Len(requirements) = 0,
     requirements |-> requirements,
     error        |-> IF Len(requirements) > 0 THEN requirements[1] ELSE JSNull]

\* validateEnvironmentSetup(), reading process.version
validateEnvironmentSetup(nodeVersion) ==
    Returned(EnvironmentResult(
        IF NodeTooOld(MajorVersion(nodeVersion))
        THEN <<NodeRequiredMsg(nodeVersion)>>
        ELSE <<>>))

\* the releases the tool may run on
MaxMajor == 20
Runtimes == [major : 0..MaxMajor, minor : {0, 16, 20}, patch : {0, 4},
             tag : {<<>>, <<"-", "r", "c", ".", "1">>}]
DefaultRuntime == [major |-> 18, minor |-> 0, patch |-> 0, tag |-> <<>>]

-----------------------------------------------------------------------------
(* getRecommendations: the advisory messages, in the order they are pushed *)

\* mutant: the package-manager advice is pushed whatever the package manager
getRecommendations_AlwaysPnpm(c) ==
    LET f  == c.fields
        r1 == PushIf(<<>>, f.frontend = JSString("react") /\ ~Truthy(f.trpc),
                "Consider using tRPC for better type safety between frontend and backend.")
        r2 == PushIf(r1, ~Truthy(f.tailwind),
                "Tailwind CSS can significantly speed up your styling workflow.")
        r3 == PushIf(r2, ~Truthy(f.auth) /\ f.frontend = JSString("nextjs"),
                "NextAuth.js provides easy authentication setup for Next.js applications.")
        r4 == PushIf(r3, TRUE,
                "Consider using pnpm or yarn for faster installs and better dependency management.")
        r5 == PushIf(r4, f.frontend = JSString("nextjs") /\ Truthy(f.trpc),
                "Next.js with tRPC provides excellent full-stack type safety.")
        r6 == PushIf(r5, Truthy(f.tailwind) /\ f.frontend = JSString("nextjs"),
                "Tailwind CSS integrates seamlessly with Next.js for rapid UI development.")
    IN  IF IsObject(c) THEN Returned(r6) ELSE Threw("TypeError")

\* getRecommendations(config), src/lib/validator.js
getRecommendations(c) ==
    LET f  == c.fields
        r1 == PushIf(<<>>, f.frontend = JSString("react") /\ ~Truthy(f.trpc),
                "Consider using tRPC for better type safety between frontend and backend.")
        r2 == PushIf(r1, ~Truthy(f.tailwind),
                "Tailwind CSS can significantly speed up your styling workflow.")
        r3 == PushIf(r2, ~Truthy(f.auth) /\ f.frontend = JSString("nextjs"),
                "NextAuth.js provides easy authentication setup for Next.js applications.")
        r4 == PushIf(r3, f.packageManager = JSString("npm"),
                "Consider using pnpm or yarn for faster installs and better dependency management.")
        r5 == PushIf(r4, f.frontend = JSString("nextjs") /\ Truthy(f.trpc),
                "Next.js with tRPC provides excellent full-stack type safety.")
        r6 == PushIf(r5, Truthy(f.tailwind) /\ f.frontend = JSString("nextjs"),
                "Tailwind CSS integrates seamlessly with Next.js for rapid UI development.")
    IN  IF IsObject(c) THEN Returned(r6) ELSE Threw("TypeError")

\* getRecommendations(config), src/unnamed/part_001
getRecommendationsLegacy(c) ==
    LET f  == c.fields
        r1 == PushIf(<<>>, f.frontend = JSString("react") /\ ~Truthy(f.trpc),
                "Consider using tRPC for better type safety between frontend and backend.")
        r2 == PushIf(r1, f.database = JSString("sqlite") /\ f.orm = JSString("drizzle"),
                "SQLite with Drizzle is a great choice for development and small applications.")
        r3 == PushIf(r2, f.database = JSString("postgresql") /\ f.orm = JSString("prisma"),
                "PostgreSQL with Prisma is an excellent choice for production applications.")
        r4 == PushIf(r3, ~Truthy(f.tailwind),
                "Tailwind CSS can significantly speed up your styling workflow.")
        r5 == PushIf(r4, ~Truthy(f.auth) /\ f.frontend = JSString("nextjs"),
                "NextAuth.js provides easy authentication setup for Next.js applications.")
        r6 == PushIf(r5, f.packageManager = JSString("npm"),
                "Consider using pnpm or yarn for faster installs and better dependency management.")
    IN  IF IsObject(c) THEN Returned(r6) ELSE Threw("TypeError")

-----------------------------------------------------------------------------
(* The names handed to validateProjectName *)

MaxShortLen == 3
MaxPrefixLen == 1

ShortAlphabet == {"a", "Z", "7", "_", ".", "-", " ", "/"}

\* every string over ShortAlphabet of at most n characters
SeqsUpTo(n) == UNION {[1..k -> ShortAlphabet] : k \in 0..n}

\* c repeated n times
Fill(c, n) == [i \in 1..n |-> c]

\* the reserved names, case variants of them, near misses, the documented examples
ListedNames ==
    Range(reservedNames) \cup
    { <<"S", "R", "C">>,
      <<"S", "r", "c">>,
      <<"D", "i", "s", "t">>,
      <<"B", "U", "I", "L", "D">>,
      <<".", "G", "I", "T">>,
      <<".", "E", "n", "v">>,
      <<"N", "o", "d", "e", "_", "M", "o", "d", "u", "l", "e", "s">>,
      <<"P", "A", "C", "K", "A", "G", "E", ".", "J", "S", "O", "N">>,
      <<"Y", "a", "r", "n", ".", "L", "o", "c", "k">>,
      <<"m", "y", "-", "a", "p", "p", "_", "2">>,
      <<"-", "m", "y", "-", "a", "p", "p">>,
      <<".", "h", "i", "d", "d", "e", "n">>,
      <<"m", "y", " ", "a", "p", "p">>,
      <<"m", "y", "/", "a", "p", "p">>,
      <<"s", "r", "c", "s">>,
      <<"s", "r">>,
      <<"n", "o", "d", "e", "_", "m", "o", "d", "u", "l", "e">>,
      <<"b", "u", "i", "l", "d", "7">>,
      <<"c", "a", "f", "é">> }

\* names around the length limit: a short prefix, then a filler letter
LongNames ==
    {p \o Fill("a", len - Len(p)) :
        p \in SeqsUpTo(MaxPrefixLen),
        len \in {MaxNameLength - 1, MaxNameLength, MaxNameLength + 1}}

NonStringNames ==
    {[kind |-> "undefined", chars |-> <<"u", "n", "d", "e", "f", "i", "n", "e", "d">>],
     [kind |-> "null", chars |-> <<"n", "u", "l", "l">>],
     [kind |-> "number", chars |-> <<"0">>],
     [kind |-> "number", chars |-> <<"4", "2">>],
     [kind |-> "boolean", chars |-> <<"t", "r", "u", "e">>],
     [kind |-> "boolean", chars |-> <<"f", "a", "l", "s", "e">>],
     [kind |-> "object", chars |-> <<"{", "}">>]}

NameInputs ==
    {NameString(cs) : cs \in SeqsUpTo(MaxShortLen) \cup ListedNames \cup LongNames}
        \cup NonStringNames

-----------------------------------------------------------------------------
(* The inputs *)

\* what a caller may put in an enumerated field: each allowed value, a value
\* outside the set, or nothing
FrontendInputs == {JSString(s) : s \in FrontendChoices \cup {"angular"}}
                      \cup {JSUndefined}
DatabaseInputs == {JSString(s) : s \in DatabaseChoices \cup {"oracle"}}
                      \cup {JSUndefined}
OrmInputs      == {JSString(s) : s \in OrmChoices \cup {"typeorm"}}
                      \cup {JSUndefined}
PackageManagerInputs == {JSString(s) : s \in PackageManagerChoices \cup {"bun"}}
                      \cup {JSUndefined}
\* what a caller may put in trpc / auth / tailwind: the booleans and their
\* truthy / falsy surrogates
BooleanInputs == {JSTrue, JSFalse, JSNumber("1"), JSNumber("0"),
                  JSString("true"), JSString(""), JSNull, JSUndefined}

Fields == [frontend : FrontendInputs, database : DatabaseInputs,
           orm : OrmInputs, packageManager : PackageManagerInputs,
           trpc : BooleanInputs, auth : BooleanInputs, tailwind : BooleanInputs]

NoFields == [frontend |-> JSUndefined, database |-> JSUndefined,
             orm |-> JSUndefined, packageManager |-> JSUndefined,
             trpc |-> JSUndefined, auth |-> JSUndefined, tailwind |-> JSUndefined]

ConfigObject(f) == [kind |-> "object", fields |-> f]
NullConfig      == [kind |-> "null", fields |-> NoFields]
UndefinedConfig == [kind |-> "undefined", fields |-> NoFields]

Configs == {ConfigObject(f) : f \in Fields} \cup {NullConfig, UndefinedConfig}

\* the arguments of the function a specification does not exercise
DefaultName   == NameString(<<"m", "y", "-", "a", "p", "p">>)
DefaultConfig ==
    ConfigObject([frontend |-> JSString("nextjs"), database |-> JSString("postgresql"),
                  orm |-> JSString("prisma"), packageManager |-> JSString("npm"),
                  trpc |-> JSTrue, auth |-> JSTrue, tailwind |-> JSTrue])

-----------------------------------------------------------------------------
(* The command-line programs: main() of src/unnamed/part_006 and of
   src/bin/create-kurdemy-app.js *)

Undefined == [kind |-> "undefined", chars |-> <<"u", "n", "d", "e", "f", "i", "n", "e", "d">>]

\* what a user may pass as the argument or type at the name prompt
CommandLineNames ==
    {<<>>, <<"a">>, <<"Z">>, <<"-", "a">>, <<".", "a">>, <<"_", "a">>,
     <<"a", " ", "Z">>, <<"a", "/", "a">>, <<"s", "r", "c">>,
     <<"m", "y", "-", "a", "p", "p">>,
     <<"n", "o", "d", "e", "_", "m", "o", "d", "u", "l", "e", "s">>,
     Fill("a", MaxNameLength + 1)}

\* default: 'my-kurdemy-app'
PromptDefaultName ==
    <<"m", "y", "-", "k", "u", "r", "d", "e", "m", "y", "-", "a", "p", "p">>

\* validatePackageName(input).validForNewPackages, validate-npm-package-name:
\* a non-empty lower-case URL-safe name of at most 214 characters that does not
\* start with '.' or '_' and is not node_modules; releases differ on a leading
\* hyphen, so both verdicts are possible for it
ValidForNewPackages(cs) ==
    IF \/ Len(cs) = 0 \/ Len(cs) > 214
       \/ cs[1] \in {".", "_"}
       \/ \E i \in 1..Len(cs) : cs[i] \in {" ", "/"}
       \/ ToLowerCase(cs) # cs
       \/ cs = <<"n", "o", "d", "e", "_", "m", "o", "d", "u", "l", "e", "s">>
    THEN {FALSE}
    ELSE IF cs[1] = "-" THEN {TRUE, FALSE} ELSE {TRUE}

\* mutant: the package-manager question also offers bun
PromptFields_WithBun ==
    [frontend : {JSString("nextjs"), JSString("react")},
     database : {JSString("postgresql"), JSString("mysql"), JSString("sqlite"),
                 JSString("sqlserver")},
     orm : {JSString("prisma"), JSString("drizzle")},
     trpc : {JSTrue, JSFalse}, auth : {JSTrue, JSFalse}, tailwind : {JSTrue, JSFalse},
     packageManager : {JSString("npm"), JSString("yarn"), JSString("pnpm"),
                       JSString("bun")}]

\* the answers inquirer can return for the seven configuration questions
PromptFields ==
    [frontend : {JSString("nextjs"), JSString("react")},
     database : {JSString("postgresql"), JSString("mysql"), JSString("sqlite"),
                 JSString("sqlserver")},
     orm : {JSString("prisma"), JSString("drizzle")},
     trpc : {JSTrue, JSFalse}, auth : {JSTrue, JSFalse}, tailwind : {JSTrue, JSFalse},
     packageManager : {JSString("npm"), JSString("yarn"), JSString("pnpm")}]

\* mutant: the frontend question preselects React
PromptDefaults_React ==
    [frontend |-> JSString("react"), database |-> JSString("postgresql"),
     orm |-> JSString("prisma"), trpc |-> JSTrue, auth |-> JSTrue, tailwind |-> JSTrue,
     packageManager |-> JSString("npm")]

\* the `default:` of each configuration question
PromptDefaults ==
    [frontend |-> JSString("nextjs"), database |-> JSString("postgresql"),
     orm |-> JSString("prisma"), trpc |-> JSTrue, auth |-> JSTrue, tailwind |-> JSTrue,
     packageManager |-> JSString("npm")]

\* the Default column of the README's option table
ReadmeDefaults ==
    [frontend |-> JSString("nextjs"), database |-> JSString("postgresql"),
     orm |-> JSString("prisma"), trpc |-> JSTrue, auth |-> JSTrue, tailwind |-> JSTrue,
     packageManager |-> JSString("npm")]

\* the answers when the user presses Enter at the questions in `entered` and
\* picks f's value at the others (the runs below press Enter at none or at all)
PromptAnswers(f, entered) ==
    [k \in DOMAIN f |-> IF k \in entered THEN PromptDefaults[k] ELSE f[k]]

\* what a user may type at a readline question
TypedAnswers == {"", "y", "Y", "n", "yes", "1", "2"}

\* mutant: Enter counts as yes
IsYes_EnterToo(answer) == answer \in {"y", "Y", ""}

\* answer.toLowerCase() === 'y'
IsYes(answer) == answer \in {"y", "Y"}

\* `{ frontend, trpc: ..., tailwind: ..., auth: false }`
QuestionFields(frontendAnswer, trpcAnswer, tailwindAnswer) ==
    [NoFields EXCEPT
        !.frontend = IF frontendAnswer = "2" THEN JSString("react") ELSE JSString("nextjs"),
        !.trpc     = IF IsYes(trpcAnswer) THEN JSTrue ELSE JSFalse,
        !.tailwind = IF IsYes(tailwindAnswer) THEN JSTrue ELSE JSFalse,
        !.auth     = JSFalse]

NoCall == [status |-> "not called"]
Called(n, c) == [status |-> "called", projectName |-> n, config |-> c]

\* the state of the command-line program before main() runs
CliNotStarted ==
    /\ entryPoint = "part_006"
    /\ validatorModule = "lib/validator.js"
    /\ argv = Undefined
    /\ overwrite = JSUndefined
    /\ pc = "start"
    /\ projectName = Undefined
    /\ dirExists = FALSE
    /\ removedDirectory = FALSE
    /\ cliConfig = ConfigObject(NoFields)
    /\ cliValidation = NotCalled
    /\ generateCall = NoCall
    /\ generation = NotCalled
    /\ installation = NotCalled
    /\ stdout = <<>>
    /\ exitCode = "running"

-----------------------------------------------------------------------------
(* generateProject: src/lib/generator.js, src/unnamed/part_000 and the
   standalone one of src/bin/create-kurdemy-app.js.  A path is the sequence of
   its segments below projectPath. *)

\* the folders array of createFolderStructure
Folders(g, f) ==
    (IF g = "lib/generator.js"
     THEN {<<"src", "backend">>, <<"src", "backend", "modules">>,
           <<"src", "backend", "modules", "auth">>, <<"src", "backend", "modules", "users">>,
           <<"src", "backend", "common">>, <<"src", "backend", "common", "decorators">>,
           <<"src", "backend", "common", "filters">>, <<"src", "backend", "common", "guards">>,
           <<"src", "backend", "common", "interceptors">>,
           <<"src", "backend", "common", "pipes">>, <<"src", "backend", "config">>,
           <<"src", "frontend">>, <<"src", "frontend", "components">>,
           <<"src", "frontend", "components", "ui">>, <<"src", "frontend", "pages">>,
           <<"src", "frontend", "styles">>, <<"src", "frontend", "lib">>,
           <<"src", "frontend", "hooks">>, <<"src", "frontend", "types">>,
           <<"src", "shared">>, <<"src", "shared", "types">>, <<"src", "shared", "utils">>,
           <<"prisma">>}
     ELSE {<<"src", "backend">>, <<"src", "backend", "src">>,
           <<"src", "backend", "src", "config">>, <<"src", "backend", "src", "common">>,
           <<"src", "backend", "src", "modules">>,
           <<"src", "backend", "src", "modules", "health">>,
           <<"src", "frontend">>, <<"src", "frontend", "components">>,
           <<"src", "frontend", "pages">>, <<"src", "frontend", "styles">>,
           <<"src", "frontend", "lib">>, <<"src", "frontend", "types">>,
           <<"src", "frontend", "public">>,
           <<"src", "shared">>, <<"src", "shared", "types">>, <<"src", "shared", "utils">>})
    \cup (IF Truthy(f.trpc)
          THEN {<<"src", "shared", "trpc">>, <<"src", "backend", "trpc">>,
                <<"src", "frontend", "trpc">>}
          ELSE {})
    \cup (IF f.frontend = JSString("nextjs")
          THEN {<<"src", "frontend", "app">>, <<"src", "frontend", "app", "api">>}
                 \cup (IF g = "lib/generator.js" THEN {<<"src", "frontend", "public">>} ELSE {})
          ELSE IF g = "lib/generator.js"
               THEN {<<"src", "frontend", "public">>, <<"src", "frontend", "src">>}
               ELSE {})

\* fs.ensureDir / fs.mkdirSync(..., { recursive: true }): the directory and
\* every ancestor, projectPath included
WithAncestors(paths) == UNION {{SubSeq(q, 1, k) : k \in 0..Len(q)} : q \in paths}

\* if (cond) then the step
StepIf(cond, step) == IF cond THEN <<step>> ELSE <<>>

\* mutant: the README is generated first
Steps_ReadmeFirst(g, f) ==
    <<"ensureDir", "generateReadme", "createFolderStructure", "generatePackageJson",
      "generateEnvFiles", "generateNestJSFiles">>
    \o <<IF f.frontend = JSString("nextjs") THEN "generateNextJSFiles"
         ELSE "generateReactFiles">>
    \o StepIf(g = "lib/generator.js", "generateDatabaseFiles")
    \o StepIf(Truthy(f.trpc), "generateTRPCFiles")
    \o StepIf(Truthy(f.auth), "generateAuthFiles")
    \o StepIf(Truthy(f.tailwind), "generateTailwindFiles")
    \o <<"generateConfigFiles">>
    \o StepIf(g = "lib/generator.js", "generateDockerFiles")

\* mutant: the Tailwind files are generated for every configuration
Steps_AlwaysTailwind(g, f) ==
    <<"ensureDir", "createFolderStructure", "generatePackageJson", "generateEnvFiles",
      "generateNestJSFiles">>
    \o <<IF f.frontend = JSString("nextjs") THEN "generateNextJSFiles"
         ELSE "generateReactFiles">>
    \o StepIf(g = "lib/generator.js", "generateDatabaseFiles")
    \o StepIf(Truthy(f.trpc), "generateTRPCFiles")
    \o StepIf(Truthy(f.auth), "generateAuthFiles")
    \o <<"generateTailwindFiles">>
    \o <<"generateConfigFiles">>
    \o StepIf(g = "lib/generator.js", "generateDockerFiles")
    \o <<"generateReadme">>

\* the awaited calls of generateProject (lib/generator.js, part_000), in the
\* order of its statements
Steps(g, f) ==
    <<"ensureDir", "createFolderStructure", "generatePackageJson", "generateEnvFiles",
      "generateNestJSFiles">>
    \o <<IF f.frontend = JSString("nextjs") THEN "generateNextJSFiles"
         ELSE "generateReactFiles">>
    \o StepIf(g = "lib/generator.js", "generateDatabaseFiles")
    \o StepIf(Truthy(f.trpc), "generateTRPCFiles")
    \o StepIf(Truthy(f.auth), "generateAuthFiles")
    \o StepIf(Truthy(f.tailwind), "generateTailwindFiles")
    \o <<"generateConfigFiles">>
    \o StepIf(g = "lib/generator.js", "generateDockerFiles")
    \o <<"generateReadme">>

\* the directories a step leaves behind when it completes
DirsAfter(g, f, step, dirs) ==
    CASE step = "ensureDir"             -> dirs \cup {<<>>}
      [] step = "createFolderStructure" -> dirs \cup WithAncestors(Folders(g, f))
      [] OTHER                          -> dirs

Mkdir(path) == [op |-> "mkdir", path |-> path]
WriteFile(path) == [op |-> "write", path |-> path]

\* mutant: the React entry file is written next to the Next.js one
StandaloneOps_ReactInFrontend(f) ==
    <<Mkdir(<<"src", "backend", "src">>), Mkdir(<<"src", "frontend">>),
      Mkdir(<<"src", "shared">>),
      WriteFile(<<"package.json">>),
      WriteFile(<<"src", "backend", "package.json">>),
      WriteFile(<<"src", "frontend", "package.json">>),
      WriteFile(<<"README.md">>),
      WriteFile(<<".gitignore">>),
      WriteFile(<<"src", "backend", "src", "main.ts">>),
      WriteFile(<<"src", "backend", "src", "app.module.ts">>),
      IF f.frontend = JSString("nextjs")
      THEN WriteFile(<<"src", "frontend", "page.tsx">>)
      ELSE WriteFile(<<"src", "frontend", "App.tsx">>)>>

\* the file-system calls of the standalone generateProject, in order
StandaloneOps(f) ==
    <<Mkdir(<<"src", "backend", "src">>), Mkdir(<<"src", "frontend">>),
      Mkdir(<<"src", "shared">>),
      WriteFile(<<"package.json">>),
      WriteFile(<<"src", "backend", "package.json">>),
      WriteFile(<<"src", "frontend", "package.json">>),
      WriteFile(<<"README.md">>),
      WriteFile(<<".gitignore">>),
      WriteFile(<<"src", "backend", "src", "main.ts">>),
      WriteFile(<<"src", "backend", "src", "app.module.ts">>),
      IF f.frontend = JSString("nextjs")
      THEN WriteFile(<<"src", "frontend", "page.tsx">>)
      ELSE WriteFile(<<"src", "frontend", "src", "App.tsx">>)>>

\* path.dirname
Dirname(path) == SubSeq(path, 1, Len(path) - 1)

\* `const packageJson = { name: projectName, version, scripts: {...}, workspaces }`
RootPackage(n) == [name |-> n, scripts |-> TRUE]

\* requiredFiles of verifyProjectStructure, src/scripts/publish.js
requiredFiles ==
    {<<"package.json">>, <<".env.example">>, <<".gitignore">>, <<"README.md">>,
     <<"tsconfig.json">>, <<"src", "backend", "package.json">>,
     <<"src", "frontend", "package.json">>, <<"src", "backend", "src", "main.ts">>,
     <<"src", "backend", "src", "app.module.ts">>}

-----------------------------------------------------------------------------
(* The installer, src/lib/installer.js.  An execa outcome is "ok" or the
   message of the error it rejects with. *)

\* the packageManager parameter with its default: `packageManager = 'npm'`
OrNpm(pm) == IF pm = JSUndefined THEN JSString("npm") ELSE pm

\* getInstallCommand(packageManager)
getInstallCommand(pm) ==
    CASE pm = JSString("yarn") -> [command |-> "yarn", args |-> <<"install">>]
      [] pm = JSString("pnpm") -> [command |-> "pnpm", args |-> <<"install">>]
      [] OTHER                 -> [command |-> "npm", args |-> <<"install">>]

\* getScriptCommand(packageManager, script)
getScriptCommand(pm, script) ==
    CASE pm = JSString("yarn") -> [command |-> "yarn", args |-> <<script>>]
      [] pm = JSString("pnpm") -> [command |-> "pnpm", args |-> <<"run", script>>]
      [] OTHER                 -> [command |-> "npm", args |-> <<"run", script>>]

\* the script each wrapper hands to runScript ('dev' stands for the script of
\* a direct runScript call)
ScriptOf(fn) ==
    CASE fn = "buildProject" -> "build"
      [] fn = "runLinting"   -> "lint"
      [] fn = "runTypeCheck" -> "type-check"
      [] OTHER               -> "dev"

\* installDependencies: `try { await execa(...) } catch (error) { throw new Error(...) }`
installDependencies(outcome) ==
    [result |-> IF outcome = "ok" THEN Returned(JSUndefined)
                ELSE Threw("Failed to install dependencies: " \o outcome),
     log    |-> <<>>]

\* runScript: `try { await execa(...) } catch (error) { console.log(Warning...) }`
runScript(script, outcome) ==
    [result |-> Returned(JSUndefined),
     log    |-> IF outcome = "ok" THEN <<>>
                ELSE <<"Warning: Failed to run script \"" \o script \o "\": " \o outcome>>]

\* buildProject, runLinting, runTypeCheck:
\* `try { await runScript(...); return true } catch (error) { console.log(...); return false }`
TrueUnlessThrown(inner, warning) ==
    IF inner.result.status = "threw"
    THEN [result |-> Returned(JSFalse),
          log    |-> Append(inner.log, warning \o inner.result.exception)]
    ELSE [result |-> Returned(JSTrue), log |-> inner.log]

\* what the called function does once execa has settled
InstallerOutcome(fn, outcome) ==
    CASE fn = "installDependencies" -> installDependencies(outcome)
      [] fn = "runScript"    -> runScript(ScriptOf(fn), outcome)
      [] fn = "buildProject" ->
            TrueUnlessThrown(runScript(ScriptOf(fn), outcome),
                             "Warning: Failed to build project: ")
      [] fn = "runLinting"   ->
            TrueUnlessThrown(runScript(ScriptOf(fn), outcome),
                             "Warning: Failed to run linting: ")
      [] fn = "runTypeCheck" ->
            TrueUnlessThrown(runScript(ScriptOf(fn), outcome),
                             "Warning: Failed to run type checking: ")

-----------------------------------------------------------------------------
(* The generators and the installer before they are called *)

GeneratorNotStarted ==
    /\ generator = "lib/generator.js"
    /\ genName = DefaultName
    /\ genConfig = DefaultConfig
    /\ genLog = <<>>
    /\ genRunning = FALSE
    /\ genDirs = {}
    /\ genFiles = {}
    /\ packageJson = JSUndefined
    /\ genResult = NotCalled

InstallerNotStarted ==
    /\ installerCall = NoCall
    /\ execaOutcome = "ok"
    /\ execaCommand = NoCall
    /\ installerLog = <<>>
    /\ installerResult = NotCalled

-----------------------------------------------------------------------------
(* The configurations handed to getRecommendations: every field present or
   missing, the enumerated ones inside or outside their arrays *)

RecommendConfigs ==
    {ConfigObject(f) : f \in
        [frontend : FrontendInputs, database : DatabaseInputs,
         orm : OrmInputs, packageManager : PackageManagerInputs,
         trpc : {JSTrue, JSFalse, JSUndefined}, auth : {JSTrue, JSFalse, JSUndefined},
         tailwind : {JSTrue, JSFalse, JSUndefined}]}

-----------------------------------------------------------------------------
(* The state machine of the option validators *)

Init ==
    /\ config \in Configs
    /\ name = DefaultName
    /\ validation = NotCalled
    /\ validationLegacy = NotCalled
    /\ nameValidation = NotCalled
    /\ nameValidationLegacy = NotCalled
    /\ runtime = DefaultRuntime
    /\ envValidation = NotCalled
    /\ recommendations = NotCalled
    /\ recommendationsLegacy = NotCalled
    /\ CliNotStarted
    /\ GeneratorNotStarted
    /\ InstallerNotStarted

CallValidateOptions ==
    /\ validation = NotCalled
    /\ validation' = validateOptions(config)
    /\ UNCHANGED <<config, name, validationLegacy, nameValidation,
                   nameValidationLegacy, envVars, recVars, cliVars, genVars, installerVars>>

CallValidateOptionsLegacy ==
    /\ validationLegacy = NotCalled
    /\ validationLegacy' = validateOptionsLegacy(config)
    /\ UNCHANGED <<config, name, validation, nameValidation,
                   nameValidationLegacy, envVars, recVars, cliVars, genVars, installerVars>>

Next ==
    \/ CallValidateOptions
    \/ CallValidateOptionsLegacy

Spec == Init /\ [][Next]_vars

-----------------------------------------------------------------------------
(* The state machine of the project-name validators *)

InitName ==
    /\ config = DefaultConfig
    /\ name \in NameInputs
    /\ validation = NotCalled
    /\ validationLegacy = NotCalled
    /\ nameValidation = NotCalled
    /\ nameValidationLegacy = NotCalled
    /\ runtime = DefaultRuntime
    /\ envValidation = NotCalled
    /\ recommendations = NotCalled
    /\ recommendationsLegacy = NotCalled
    /\ CliNotStarted
    /\ GeneratorNotStarted
    /\ InstallerNotStarted

CallValidateProjectName ==
    /\ nameValidation = NotCalled
    /\ nameValidation' = validateProjectName(name)
    /\ UNCHANGED <<config, name, validation, validationLegacy,
                   nameValidationLegacy, envVars, recVars, cliVars, genVars, installerVars>>

CallValidateProjectNameLegacy ==
    /\ nameValidationLegacy = NotCalled
    /\ nameValidationLegacy' = validateProjectNameLegacy(name)
    /\ UNCHANGED <<config, name, validation, validationLegacy,
                   nameValidation, envVars, recVars, cliVars, genVars, installerVars>>

NextName ==
    \/ CallValidateProjectName
    \/ CallValidateProjectNameLegacy

SpecName == InitName /\ [][NextName]_vars

-----------------------------------------------------------------------------
(* The state machine of the environment check *)

InitEnv ==
    /\ config = DefaultConfig
    /\ name = DefaultName
    /\ validation = NotCalled
    /\ validationLegacy = NotCalled
    /\ nameValidation = NotCalled
    /\ nameValidationLegacy = NotCalled
    /\ runtime \in Runtimes
    /\ envValidation = NotCalled
    /\ recommendations = NotCalled
    /\ recommendationsLegacy = NotCalled
    /\ CliNotStarted
    /\ GeneratorNotStarted
    /\ InstallerNotStarted

CallValidateEnvironmentSetup ==
    /\ envValidation = NotCalled
    /\ envValidation' = validateEnvironmentSetup(ProcessVersion(runtime))
    /\ UNCHANGED <<validatorVars, runtime, recVars, cliVars, genVars, installerVars>>

NextEnv == CallValidateEnvironmentSetup

SpecEnv == InitEnv /\ [][NextEnv]_vars

-----------------------------------------------------------------------------
(* The state machine of the validators with their advisory function *)

InitRecommend ==
    /\ config \in RecommendConfigs
    /\ name = DefaultName
    /\ validation = NotCalled
    /\ validationLegacy = NotCalled
    /\ nameValidation = NotCalled
    /\ nameValidationLegacy = NotCalled
    /\ runtime = DefaultRuntime
    /\ envValidation = NotCalled
    /\ recommendations = NotCalled
    /\ recommendationsLegacy = NotCalled
    /\ CliNotStarted
    /\ GeneratorNotStarted
    /\ InstallerNotStarted

CallGetRecommendations ==
    /\ recommendations' = getRecommendations(config)
    /\ UNCHANGED <<validatorVars, envVars, recommendationsLegacy, cliVars, genVars, installerVars>>

CallGetRecommendationsLegacy ==
    /\ recommendationsLegacy' = getRecommendationsLegacy(config)
    /\ UNCHANGED <<validatorVars, envVars, recommendations, cliVars, genVars, installerVars>>

NextRecommend ==
    \/ CallValidateOptions
    \/ CallValidateOptionsLegacy
    \/ CallGetRecommendations
    \/ CallGetRecommendationsLegacy

SpecRecommend == InitRecommend /\ [][NextRecommend]_vars

-----------------------------------------------------------------------------
(* The state machine of the command-line programs *)

InitCli ==
    /\ config = DefaultConfig
    /\ name = DefaultName
    /\ validation = NotCalled
    /\ validationLegacy = NotCalled
    /\ nameValidation = NotCalled
    /\ nameValidationLegacy = NotCalled
    /\ runtime = DefaultRuntime
    /\ envValidation = NotCalled
    /\ recommendations = NotCalled
    /\ recommendationsLegacy = NotCalled
    /\ entryPoint \in {"part_006", "bin"}
    /\ validatorModule \in
          IF entryPoint = "part_006" THEN {"lib/validator.js", "part_001"}
          ELSE {"none"}
    /\ argv \in {NameString(cs) : cs \in CommandLineNames} \cup {Undefined}
    /\ overwrite = JSUndefined
    /\ pc = "start"
    /\ projectName = Undefined
    /\ dirExists \in BOOLEAN
    /\ removedDirectory = FALSE
    /\ cliConfig = ConfigObject(NoFields)
    /\ cliValidation = NotCalled
    /\ generateCall = NoCall
    /\ generation = NotCalled
    /\ installation = NotCalled
    /\ stdout = <<>>
    /\ exitCode = "running"
    /\ GeneratorNotStarted
    /\ InstallerNotStarted

\* process.exit(code) after printing line
ExitWith(line, code) ==
    /\ stdout' = Append(stdout, line)
    /\ pc' = "exited"
    /\ exitCode' = code

\* `let projectName = args[0]; if (!projectName)` /
\* `process.argv[2] || await question(...)`
ReadArgument ==
    /\ pc = "start"
    /\ projectName' = argv
    /\ pc' = IF NameTruthy(argv) THEN "checkDir" ELSE "promptName"
    /\ UNCHANGED <<validatorVars, envVars, recVars, genVars, installerVars,
                   entryPoint, validatorModule, argv, overwrite,
                   dirExists, removedDirectory, cliConfig, cliValidation, generateCall,
                   generation, installation, stdout, exitCode>>

\* part_006: the name prompt returns once its validate callback accepts
PromptName ==
    /\ pc = "promptName" /\ entryPoint = "part_006"
    /\ \E typed \in CommandLineNames :
         LET input == IF typed = <<>> THEN PromptDefaultName ELSE typed
         IN  /\ TRUE \in ValidForNewPackages(input)
             /\ projectName' = NameString(input)
    /\ pc' = "checkDir"
    /\ UNCHANGED <<validatorVars, envVars, recVars, genVars, installerVars,
                   entryPoint, validatorModule, argv, overwrite,
                   dirExists, removedDirectory, cliConfig, cliValidation, generateCall,
                   generation, installation, stdout, exitCode>>

\* bin: `await question('Project name: ')` and `if (!projectName)`
QuestionName ==
    /\ pc = "promptName" /\ entryPoint = "bin"
    /\ \E typed \in CommandLineNames :
         /\ projectName' = NameString(typed)
         /\ IF typed = <<>>
            THEN ExitWith("Project name is required!", "1")
            ELSE pc' = "checkDir" /\ UNCHANGED <<stdout, exitCode>>
    /\ UNCHANGED <<validatorVars, envVars, recVars, genVars, installerVars,
                   entryPoint, validatorModule, argv, overwrite,
                   dirExists, removedDirectory, cliConfig, cliValidation, generateCall,
                   generation, installation>>

\* `if (await fs.pathExists(projectPath))` / `if (fs.existsSync(projectPath))`
CheckDirectory ==
    /\ pc = "checkDir"
    /\ pc' = IF dirExists THEN "askOverwrite" ELSE "questions"
    /\ UNCHANGED <<validatorVars, envVars, recVars, genVars, installerVars,
                   entryPoint, validatorModule, argv, overwrite,
                   projectName, dirExists, removedDirectory, cliConfig, cliValidation,
                   generateCall, generation, installation, stdout, exitCode>>

\* part_006: the confirm prompt, `if (!overwrite)`, `await fs.remove(projectPath)`
ConfirmOverwrite ==
    /\ pc = "askOverwrite" /\ entryPoint = "part_006"
    /\ \E answer \in {JSTrue, JSFalse} :
         /\ overwrite' = answer
         /\ IF ~Truthy(answer)
            THEN /\ ExitWith("Operation cancelled.", "0")
                 /\ UNCHANGED <<dirExists, removedDirectory>>
            ELSE /\ dirExists' = FALSE
                 /\ removedDirectory' = TRUE
                 /\ pc' = "questions"
                 /\ UNCHANGED <<stdout, exitCode>>
    /\ UNCHANGED <<validatorVars, envVars, recVars, genVars, installerVars,
                   entryPoint, validatorModule, argv,
                   projectName, cliConfig, cliValidation, generateCall, generation,
                   installation>>

\* bin: the overwrite question, `overwrite.toLowerCase() !== 'y'`, fs.rmSync
QuestionOverwrite ==
    /\ pc = "askOverwrite" /\ entryPoint = "bin"
    /\ \E answer \in TypedAnswers :
         /\ overwrite' = JSString(answer)
         /\ IF ~IsYes(answer)
            THEN /\ ExitWith("Cancelled.", "0")
                 /\ UNCHANGED <<dirExists, removedDirectory>>
            ELSE /\ dirExists' = FALSE
                 /\ removedDirectory' = TRUE
                 /\ pc' = "questions"
                 /\ UNCHANGED <<stdout, exitCode>>
    /\ UNCHANGED <<validatorVars, envVars, recVars, genVars, installerVars,
                   entryPoint, validatorModule, argv,
                   projectName, cliConfig, cliValidation, generateCall, generation,
                   installation>>

\* part_006: `const config = await inquirer.prompt([...])`
PromptConfiguration ==
    /\ pc = "questions" /\ entryPoint = "part_006"
    /\ \E f \in PromptFields, entered \in {{}, DOMAIN PromptDefaults} :
         cliConfig' = ConfigObject(PromptAnswers(f, entered))
    /\ pc' = "validate"
    /\ UNCHANGED <<validatorVars, envVars, recVars, genVars, installerVars,
                   entryPoint, validatorModule, argv, overwrite,
                   projectName, dirExists, removedDirectory, cliValidation, generateCall,
                   generation, installation, stdout, exitCode>>

\* bin: the three questions and `const config = {...}`; no validation follows
QuestionConfiguration ==
    /\ pc = "questions" /\ entryPoint = "bin"
    /\ \E frontendAnswer \in TypedAnswers, trpcAnswer \in TypedAnswers,
          tailwindAnswer \in TypedAnswers :
         cliConfig' = ConfigObject(QuestionFields(frontendAnswer, trpcAnswer, tailwindAnswer))
    /\ pc' = "generate"
    /\ UNCHANGED <<validatorVars, envVars, recVars, genVars, installerVars,
                   entryPoint, validatorModule, argv, overwrite,
                   projectName, dirExists, removedDirectory, cliValidation, generateCall,
                   generation, installation, stdout, exitCode>>

\* `!validation.valid`
ValidationRejects(v) == ~v.value.valid

\* part_006: `const validation = validateOptions(config); if (!validation.valid)`
ValidateConfiguration ==
    /\ pc = "validate"
    /\ cliValidation' = IF validatorModule = "part_001"
                        THEN validateOptionsLegacy(cliConfig)
                        ELSE validateOptions(cliConfig)
    /\ IF ValidationRejects(cliValidation')
       THEN ExitWith("Configuration error: " \o cliValidation'.value.error.val, "1")
       ELSE pc' = "generate" /\ UNCHANGED <<stdout, exitCode>>
    /\ UNCHANGED <<validatorVars, envVars, recVars, genVars, installerVars,
                   entryPoint, validatorModule, argv, overwrite,
                   projectName, dirExists, removedDirectory, cliConfig, generateCall,
                   generation, installation>>

\* `await generateProject(projectPath, projectName, config)`: it returns with
\* the directory written, or throws with the directory in any state
GenerateProject ==
    /\ pc = "generate"
    /\ generateCall' = Called(projectName, cliConfig)
    /\ \E ok \in BOOLEAN :
         IF ok
         THEN /\ generation' = Returned(JSUndefined)
              /\ dirExists' = TRUE
              /\ IF entryPoint = "part_006"
                 THEN pc' = "install" /\ UNCHANGED <<stdout, exitCode>>
                 ELSE /\ stdout' = Append(stdout, "Project created successfully!")
                      /\ pc' = "done"
                      /\ exitCode' = "0"
         ELSE /\ generation' = Threw("Error")
              /\ dirExists' \in BOOLEAN
              /\ ExitWith(IF entryPoint = "part_006" THEN "Failed to create project"
                          ELSE "Error:", "1")
    /\ UNCHANGED <<validatorVars, envVars, recVars, genVars, installerVars,
                   entryPoint, validatorModule, argv, overwrite,
                   projectName, removedDirectory, cliConfig, cliValidation, installation>>

\* mutant: a failed install is swallowed and the success message printed
InstallDependencies_SwallowsFailure ==
    /\ pc = "install"
    /\ \E ok \in BOOLEAN :
         /\ installation' = IF ok THEN Returned(JSUndefined) ELSE Threw("Error")
         /\ stdout' = Append(stdout, "Your Kurdemy app has been created successfully!")
         /\ pc' = "done"
         /\ exitCode' = "0"
    /\ UNCHANGED <<validatorVars, envVars, recVars, genVars, installerVars, entryPoint,
                   validatorModule, argv, overwrite, projectName, dirExists, removedDirectory,
                   cliConfig, cliValidation, generateCall, generation>>

\* part_006: `await installDependencies(projectPath, config.packageManager)` and
\* the success message
InstallDependencies ==
    /\ pc = "install"
    /\ \E ok \in BOOLEAN :
         IF ok
         THEN /\ installation' = Returned(JSUndefined)
              /\ stdout' = Append(stdout, "Your Kurdemy app has been created successfully!")
              /\ pc' = "done"
              /\ exitCode' = "0"
         ELSE /\ installation' = Threw("Error")
              /\ ExitWith("Failed to create project", "1")
    /\ UNCHANGED <<validatorVars, envVars, recVars, genVars, installerVars,
                   entryPoint, validatorModule, argv, overwrite,
                   projectName, dirExists, removedDirectory, cliConfig, cliValidation,
                   generateCall, generation>>

NextCli ==
    \/ ReadArgument
    \/ PromptName
    \/ QuestionName
    \/ CheckDirectory
    \/ ConfirmOverwrite
    \/ QuestionOverwrite
    \/ PromptConfiguration
    \/ QuestionConfiguration
    \/ ValidateConfiguration
    \/ GenerateProject
    \/ InstallDependencies

SpecCli == InitCli /\ [][NextCli]_vars

-----------------------------------------------------------------------------
(* The state machine of the generators *)

InitGenerate ==
    /\ config = DefaultConfig
    /\ name = DefaultName
    /\ validation = NotCalled
    /\ validationLegacy = NotCalled
    /\ nameValidation = NotCalled
    /\ nameValidationLegacy = NotCalled
    /\ runtime = DefaultRuntime
    /\ envValidation = NotCalled
    /\ recommendations = NotCalled
    /\ recommendationsLegacy = NotCalled
    /\ CliNotStarted
    /\ InstallerNotStarted
    /\ generator \in {"lib/generator.js", "part_000", "bin"}
    /\ genName \in {NameString(<<"m", "y", "-", "a", "p", "p">>), NameString(<<"a", " ", "Z">>)}
    /\ genConfig \in
          IF generator = "bin"
          THEN {ConfigObject(QuestionFields(a, b, c)) :
                    a \in TypedAnswers, b \in TypedAnswers, c \in TypedAnswers}
          ELSE {ConfigObject(f) : f \in PromptFields}
    /\ genLog = <<>>
    /\ genRunning = FALSE
    /\ genDirs \in {{}, {<<>>}}
    /\ genFiles = {}
    /\ packageJson = JSUndefined
    /\ genResult = NotCalled

\* lib/generator.js, part_000: the next `await step(...)` is called
StartStep ==
    /\ generator # "bin"
    /\ genResult = NotCalled /\ ~genRunning
    /\ Len(genLog) < Len(Steps(generator, genConfig.fields))
    /\ genLog' = Append(genLog, Steps(generator, genConfig.fields)[Len(genLog) + 1])
    /\ genRunning' = TRUE
    /\ UNCHANGED <<validatorVars, envVars, recVars, cliVars, installerVars, generator,
                   genName, genConfig, genDirs, genFiles, packageJson, genResult>>

\* the awaited step resolves, or rejects and generateProject rejects with it
\* (part_000 rewraps the error)
FinishStep ==
    /\ generator # "bin"
    /\ genRunning
    /\ genRunning' = FALSE
    /\ \E ok \in BOOLEAN :
         IF ok
         THEN /\ genDirs' = DirsAfter(generator, genConfig.fields,
                                      genLog[Len(genLog)], genDirs)
              /\ genResult' = IF Len(genLog) = Len(Steps(generator, genConfig.fields))
                              THEN Returned(JSUndefined) ELSE NotCalled
         ELSE /\ genDirs' = genDirs
              /\ genResult' = Threw("Error")
    /\ UNCHANGED <<validatorVars, envVars, recVars, cliVars, installerVars, generator,
                   genName, genConfig, genLog, genFiles, packageJson>>

\* bin: the next fs.mkdirSync / fs.writeFileSync; writing into a directory
\* that does not exist throws ENOENT
StandaloneStep ==
    /\ generator = "bin"
    /\ genResult = NotCalled
    /\ Len(genLog) < Len(StandaloneOps(genConfig.fields))
    /\ LET call == StandaloneOps(genConfig.fields)[Len(genLog) + 1]
           last == Len(genLog) + 1 = Len(StandaloneOps(genConfig.fields))
       IN  /\ genLog' = Append(genLog, call)
           /\ IF call.op = "mkdir"
              THEN /\ genDirs' = genDirs \cup WithAncestors({call.path})
                   /\ UNCHANGED <<genFiles, packageJson>>
                   /\ genResult' = IF last THEN Returned(JSUndefined) ELSE NotCalled
              ELSE IF Dirname(call.path) \in genDirs
              THEN /\ genFiles' = genFiles \cup {call.path}
                   /\ packageJson' = IF call.path = <<"package.json">>
                                     THEN RootPackage(genName) ELSE packageJson
                   /\ UNCHANGED genDirs
                   /\ genResult' = IF last THEN Returned(JSUndefined) ELSE NotCalled
              ELSE /\ genResult' = Threw("ENOENT")
                   /\ UNCHANGED <<genDirs, genFiles, packageJson>>
    /\ UNCHANGED <<validatorVars, envVars, recVars, cliVars, installerVars, generator,
                   genName, genConfig, genRunning>>

NextGenerate ==
    \/ StartStep
    \/ FinishStep
    \/ StandaloneStep

SpecGenerate == InitGenerate /\ [][NextGenerate]_vars

-----------------------------------------------------------------------------
(* The state machine of the installer *)

InitInstall ==
    /\ config = DefaultConfig
    /\ name = DefaultName
    /\ validation = NotCalled
    /\ validationLegacy = NotCalled
    /\ nameValidation = NotCalled
    /\ nameValidationLegacy = NotCalled
    /\ runtime = DefaultRuntime
    /\ envValidation = NotCalled
    /\ recommendations = NotCalled
    /\ recommendationsLegacy = NotCalled
    /\ CliNotStarted
    /\ GeneratorNotStarted
    /\ installerCall \in
          [status : {"called"},
           fn : {"installDependencies", "runScript", "buildProject", "runLinting",
                 "runTypeCheck"},
           packageManager : {JSString("npm"), JSString("yarn"), JSString("pnpm"),
                             JSString("bun"), JSUndefined}]
    /\ execaOutcome \in {"ok", "Command failed with exit code 1", "spawn pnpm ENOENT"}
    /\ execaCommand = NoCall
    /\ installerLog = <<>>
    /\ installerResult = NotCalled

\* `await execa(command.command, command.args, {...})` is started
CallExeca ==
    /\ execaCommand = NoCall
    /\ execaCommand' =
          IF installerCall.fn = "installDependencies"
          THEN getInstallCommand(OrNpm(installerCall.packageManager))
          ELSE getScriptCommand(OrNpm(installerCall.packageManager),
                                ScriptOf(installerCall.fn))
    /\ UNCHANGED <<validatorVars, envVars, recVars, cliVars, genVars, installerCall,
                   execaOutcome, installerLog, installerResult>>

\* execa settles and the called function returns or throws
SettleExeca ==
    /\ execaCommand # NoCall /\ installerResult = NotCalled
    /\ installerResult' = InstallerOutcome(installerCall.fn, execaOutcome).result
    /\ installerLog' = InstallerOutcome(installerCall.fn, execaOutcome).log
    /\ UNCHANGED <<validatorVars, envVars, recVars, cliVars, genVars, installerCall,
                   execaOutcome, execaCommand>>

NextInstall ==
    \/ CallExeca
    \/ SettleExeca

SpecInstall == InitInstall /\ [][NextInstall]_vars


-----------------------------------------------------------------------------
(* Properties of validateOptions.                                          *)
(*                                                                         *)
(* The predicates below restate the documented domains and rules; they are *)
(* written from the specification's wording, not from the validators.      *)

Ran       == validation.status = "returned"
RanLegacy == validationLegacy.status = "returned"
Res       == validation.value
ResLegacy == validationLegacy.value
Cfg       == config.fields

FrontendOk(f)       == f.frontend \in {JSString("nextjs"), JSString("react")}
DatabaseOk(f)       == f.database \in {JSString("postgresql"), JSString("mysql"),
                                       JSString("sqlite"), JSString("sqlserver")}
OrmOk(f)            == f.orm \in {JSString("prisma"), JSString("drizzle")}
PackageManagerOk(f) == f.packageManager \in {JSString("npm"), JSString("yarn"),
                                             JSString("pnpm")}
StrictBoolean(v)    == v \in {JSTrue, JSFalse}
BooleansOk(f)       == StrictBoolean(f.trpc) /\ StrictBoolean(f.auth)
                           /\ StrictBoolean(f.tailwind)

\* rule 1 as documented: auth = true and frontend is not Next.js
AuthRuleViolated(f) == f.auth = JSTrue /\ f.frontend # JSString("nextjs")
\* rule 1 with a truthy auth: true, or a surrogate such as 1 or 'true'
AuthTruthy(f)       == f.auth \in {JSTrue, JSNumber("1"), JSString("true")}
AuthRuleTriggered(f) == AuthTruthy(f) /\ f.frontend # JSString("nextjs")
\* rule 2: the Drizzle-like ORM on SQL Server
OrmRuleViolated(f)  == f.orm = JSString("drizzle") /\ f.database = JSString("sqlserver")

\* the fields with a domain violation, among those each generation checks
DomainViolations(f) ==
    {x \in {"frontend"} : ~FrontendOk(f)}
      \cup {x \in {"packageManager"} : ~PackageManagerOk(f)}
      \cup {x \in {"trpc", "auth", "tailwind"} : ~StrictBoolean(f[x])}
DomainViolationsLegacy(f) ==
    DomainViolations(f)
      \cup {x \in {"database"} : ~DatabaseOk(f)}
      \cup {x \in {"orm"} : ~OrmOk(f)}

\* the field a domain message names
FieldNamedBy(msg) ==
    CASE msg = FrontendMsg                   -> "frontend"
      [] msg = DatabaseMsg                   -> "database"
      [] msg = OrmMsg                        -> "orm"
      [] msg = PackageManagerMsg             -> "packageManager"
      [] msg = "trpc must be a boolean value."     -> "trpc"
      [] msg = "auth must be a boolean value."     -> "auth"
      [] msg = "tailwind must be a boolean value." -> "tailwind"
      [] OTHER                               -> "none"

\* C1: a configuration with every checked field in its domain and no
\* cross-field rule violated is accepted: valid = true and errors = [],
\* by the current validator (frontend, packageManager, booleans, auth rule)
\* and by the legacy one (database, orm and the ORM rule as well).
C1_ValidConfigAccepted ==
    /\ (Ran /\ FrontendOk(Cfg) /\ PackageManagerOk(Cfg) /\ BooleansOk(Cfg)
            /\ ~AuthRuleViolated(Cfg))
         => (Res.valid = TRUE /\ Res.errors = <<>>)
    /\ (RanLegacy /\ FrontendOk(Cfg) /\ DatabaseOk(Cfg) /\ OrmOk(Cfg)
            /\ PackageManagerOk(Cfg) /\ BooleansOk(Cfg)
            /\ ~AuthRuleViolated(Cfg) /\ ~OrmRuleViolated(Cfg))
         => (ResLegacy.valid = TRUE /\ ResLegacy.errors = <<>>)

C1_Witness ==
    /\ Ran /\ RanLegacy
    /\ FrontendOk(Cfg) /\ DatabaseOk(Cfg) /\ OrmOk(Cfg) /\ PackageManagerOk(Cfg)
    /\ BooleansOk(Cfg) /\ ~AuthRuleViolated(Cfg) /\ ~OrmRuleViolated(Cfg)
    /\ Cfg.frontend = JSString("react") /\ Cfg.auth = JSFalse
    /\ Cfg.orm = JSString("drizzle")
    /\ Res.valid /\ ResLegacy.valid

C3_Original ==
    /\ (Ran /\ Cardinality(DomainViolations(Cfg)) = 1)
         => (Len(Res.errors) = 1
             /\ FieldNamedBy(Res.errors[1]) \in DomainViolations(Cfg))
    /\ (RanLegacy /\ Cardinality(DomainViolationsLegacy(Cfg)) = 1)
         => (Len(ResLegacy.errors) = 1
             /\ FieldNamedBy(ResLegacy.errors[1]) \in DomainViolationsLegacy(Cfg))

\* C3, amended: exactly one domain violation among the fields the validator
\* checks, and no cross-field rule triggered (auth not truthy or frontend =
\* nextjs; for the legacy validator also not drizzle on sqlserver) => exactly
\* one error, naming the offending field.
C3_SingleViolationSingleError ==
    /\ (Ran /\ Cardinality(DomainViolations(Cfg)) = 1 /\ ~AuthRuleTriggered(Cfg))
         => (Len(Res.errors) = 1
             /\ FieldNamedBy(Res.errors[1]) \in DomainViolations(Cfg))
    /\ (RanLegacy /\ Cardinality(DomainViolationsLegacy(Cfg)) = 1
            /\ ~AuthRuleTriggered(Cfg) /\ ~OrmRuleViolated(Cfg))
         => (Len(ResLegacy.errors) = 1
             /\ FieldNamedBy(ResLegacy.errors[1]) \in DomainViolationsLegacy(Cfg))

C3_Witness ==
    /\ Ran /\ RanLegacy
    /\ DomainViolationsLegacy(Cfg) = {"packageManager"}
    /\ ~AuthRuleTriggered(Cfg) /\ ~OrmRuleViolated(Cfg)
    /\ Res.errors = <<PackageManagerMsg>>
    /\ ResLegacy.errors = <<PackageManagerMsg>>

\* a configuration without database and orm, otherwise valid and compatible
NoDatabaseConfig(f) ==
    /\ f.database = JSUndefined /\ f.orm = JSUndefined
    /\ FrontendOk(f) /\ PackageManagerOk(f) /\ BooleansOk(f)
    /\ ~AuthRuleViolated(f)

\* C4 as stated: both validator generations accept a configuration that has
\* no database and no orm field when the other fields are valid.
C4_Original ==
    /\ (Ran /\ NoDatabaseConfig(Cfg)) => (Res.valid = TRUE /\ Res.errors = <<>>)
    /\ (RanLegacy /\ NoDatabaseConfig(Cfg))
         => (ResLegacy.valid = TRUE /\ ResLegacy.errors = <<>>)

\* C4, amended: the current validator accepts such a configuration; the
\* legacy validator rejects it with exactly the database and the ORM
\* domain errors.
C4_NoDatabaseFields ==
    /\ (Ran /\ NoDatabaseConfig(Cfg)) => (Res.valid = TRUE /\ Res.errors = <<>>)
    /\ (RanLegacy /\ NoDatabaseConfig(Cfg))
         => (ResLegacy.valid = FALSE /\ ResLegacy.errors = <<DatabaseMsg, OrmMsg>>)

C4_Witness ==
    /\ Ran /\ RanLegacy
    /\ Cfg = [frontend |-> JSString("nextjs"), database |-> JSUndefined,
              orm |-> JSUndefined, packageManager |-> JSString("npm"),
              trpc |-> JSTrue, auth |-> JSTrue, tailwind |-> JSTrue]
    /\ Res.valid /\ ~ResLegacy.valid

\* C5 as stated: orm = drizzle with database = sqlserver => valid = false and
\* the Drizzle/SQL Server message, whatever the other fields (both generations).
C5_Original ==
    /\ (Ran /\ OrmRuleViolated(Cfg))
         => (Res.valid = FALSE /\ OrmDatabaseMsg \in Range(Res.errors))
    /\ (RanLegacy /\ OrmRuleViolated(Cfg))
         => (ResLegacy.valid = FALSE /\ OrmDatabaseMsg \in Range(ResLegacy.errors))

\* C5, amended: the legacy validator returns valid = false with the
\* Drizzle/SQL Server message whenever orm = drizzle and database = sqlserver,
\* whatever the other fields; the current validator has no such rule and never
\* returns that message.
C5_DrizzleSqlServerLegacy ==
    /\ (RanLegacy /\ OrmRuleViolated(Cfg))
         => (ResLegacy.valid = FALSE /\ OrmDatabaseMsg \in Range(ResLegacy.errors))
    /\ Ran => OrmDatabaseMsg \notin Range(Res.errors)

C5_Witness ==
    /\ Ran /\ RanLegacy /\ OrmRuleViolated(Cfg)
    /\ Cfg.frontend = JSString("nextjs") /\ Cfg.packageManager = JSString("yarn")
    /\ Cfg.trpc = JSFalse /\ Cfg.auth = JSFalse /\ Cfg.tailwind = JSFalse
    /\ ResLegacy.errors = <<OrmDatabaseMsg>> /\ Res.valid


\* the messages each generation owes a configuration, rule by rule, with the
\* auth rule read as documented (auth = true) or as truthiness
DomainMsgs(f) ==
    {m \in {FrontendMsg} : ~FrontendOk(f)}
      \cup {m \in {PackageManagerMsg} : ~PackageManagerOk(f)}
      \cup {m \in {"trpc must be a boolean value."} : ~StrictBoolean(f.trpc)}
      \cup {m \in {"auth must be a boolean value."} : ~StrictBoolean(f.auth)}
      \cup {m \in {"tailwind must be a boolean value."} : ~StrictBoolean(f.tailwind)}
DomainMsgsLegacy(f) ==
    DomainMsgs(f)
      \cup {m \in {DatabaseMsg} : ~DatabaseOk(f)}
      \cup {m \in {OrmMsg} : ~OrmOk(f)}
OrmRuleMsgs(f) == {m \in {OrmDatabaseMsg} : OrmRuleViolated(f)}

\* errors holds each message of owed exactly once and nothing else
ExactlyOnce(errors, owed) ==
    Range(errors) = owed /\ Len(errors) = Cardinality(owed)

\* C6 as stated: errors holds exactly one message per violated rule and no
\* other message, the auth rule being violated when auth = true and frontend
\* is not nextjs.
C6_Original ==
    /\ Ran => ExactlyOnce(Res.errors,
                  DomainMsgs(Cfg)
                    \cup {m \in {AuthFrontendMsg} : AuthRuleViolated(Cfg)})
    /\ RanLegacy => ExactlyOnce(ResLegacy.errors,
                  DomainMsgsLegacy(Cfg) \cup OrmRuleMsgs(Cfg)
                    \cup {m \in {AuthFrontendMsg} : AuthRuleViolated(Cfg)})

\* C6, amended: validateOptions never short-circuits: errors holds exactly
\* one message per violated rule of the generation and no other message,
\* where the auth/frontend rule counts as violated whenever auth is truthy
\* (true, or a surrogate such as 1 or 'true') and frontend is not nextjs.
C6_NoShortCircuit ==
    /\ Ran => ExactlyOnce(Res.errors,
                  DomainMsgs(Cfg)
                    \cup {m \in {AuthFrontendMsg} : AuthRuleTriggered(Cfg)})
    /\ RanLegacy => ExactlyOnce(ResLegacy.errors,
                  DomainMsgsLegacy(Cfg) \cup OrmRuleMsgs(Cfg)
                    \cup {m \in {AuthFrontendMsg} : AuthRuleTriggered(Cfg)})

C6_Witness ==
    /\ Ran /\ RanLegacy
    /\ Len(Res.errors) = 6 /\ Len(ResLegacy.errors) = 8
    /\ Cfg.auth = JSNumber("1")

\* the documented position of each message
Rank(msg) ==
    CASE msg = FrontendMsg                         -> 1
      [] msg = DatabaseMsg                         -> 2
      [] msg = OrmMsg                              -> 3
      [] msg = PackageManagerMsg                   -> 4
      [] msg = "trpc must be a boolean value."     -> 5
      [] msg = "auth must be a boolean value."     -> 6
      [] msg = "tailwind must be a boolean value." -> 7
      [] msg = AuthFrontendMsg                     -> 8
      [] msg = OrmDatabaseMsg                      -> 9
      [] OTHER                                     -> 0

InDocumentedOrder(errors) ==
    \A i, j \in 1..Len(errors) : i < j => Rank(errors[i]) < Rank(errors[j])

\* C7: the messages of errors always appear in the order frontend, database,
\* orm, packageManager, trpc, auth, tailwind, auth/frontend compatibility,
\* orm/database compatibility (both generations).
C7_ErrorOrder ==
    /\ Ran => InDocumentedOrder(Res.errors)
    /\ RanLegacy => InDocumentedOrder(ResLegacy.errors)

C7_Witness ==
    /\ Ran /\ RanLegacy
    /\ Len(ResLegacy.errors) = 7
    /\ ResLegacy.errors[1] = FrontendMsg
    /\ ResLegacy.errors[6] = AuthFrontendMsg
    /\ ResLegacy.errors[7] = OrmDatabaseMsg
    /\ Len(Res.errors) = 6

\* C8 as stated: the result has the shape {valid, errors, firstError}, with
\* firstError = errors[0] or null.
C8_Original ==
    /\ Ran => /\ DOMAIN Res = {"valid", "errors", "firstError"}
              /\ Res.valid = (Res.errors = <<>>)
              /\ Res.firstError = IF Res.errors = <<>> THEN JSNull
                                  ELSE JSString(Res.errors[1])
    /\ RanLegacy => /\ DOMAIN ResLegacy = {"valid", "errors", "firstError"}
                    /\ ResLegacy.valid = (ResLegacy.errors = <<>>)
                    /\ ResLegacy.firstError = IF ResLegacy.errors = <<>> THEN JSNull
                                              ELSE JSString(ResLegacy.errors[1])

ShapeOk(r) ==
    /\ DOMAIN r = {"valid", "errors", "error"}
    /\ r.valid = (r.errors = <<>>)
    /\ r.errors # <<>> => r.error = JSString(Head(r.errors))
    /\ r.errors = <<>> => r.error = JSNull

\* C8, amended: every result of validateOptions has the shape
\* {valid, errors, error}: the convenience field is named error; valid = true
\* exactly when errors is empty, error = errors[0] when errors is non-empty
\* and error = null when it is empty (both generations).
C8_ResultShape ==
    /\ Ran => ShapeOk(Res)
    /\ RanLegacy => ShapeOk(ResLegacy)

C8_Witness ==
    /\ Ran /\ RanLegacy
    /\ Len(Res.errors) >= 2 /\ Res.error = JSString(FrontendMsg)
    /\ Len(ResLegacy.errors) >= 2

C8_WitnessValid ==
    /\ Ran /\ RanLegacy /\ Res.errors = <<>> /\ Res.error = JSNull /\ Res.valid

\* C9: for each of trpc, auth and tailwind, '<field> must be a boolean value.'
\* is reported exactly when the value is not true or false: 1, 0, 'true', '',
\* null and a missing field are rejected, true and false never are.
C9_StrictBooleans ==
    \A o \in {"trpc", "auth", "tailwind"} :
       /\ Ran => ((o \o " must be a boolean value.") \in Range(Res.errors)
                     <=> Cfg[o] \notin {JSTrue, JSFalse})
       /\ RanLegacy =>
                 ((o \o " must be a boolean value.") \in Range(ResLegacy.errors)
                     <=> Cfg[o] \notin {JSTrue, JSFalse})

C9_Witness ==
    /\ Ran /\ RanLegacy
    /\ Cfg.trpc = JSNumber("0") /\ Cfg.auth = JSUndefined
    /\ Cfg.tailwind = JSString("true")
    /\ FrontendOk(Cfg) /\ PackageManagerOk(Cfg)
    /\ Res.errors = <<"trpc must be a boolean value.",
                      "auth must be a boolean value.",
                      "tailwind must be a boolean value.">>

-----------------------------------------------------------------------------
(* Properties of validateProjectName *)

NameRan       == nameValidation.status = "returned"
NameRanLegacy == nameValidationLegacy.status = "returned"

AllowedNameChars ==
    {"a", "b", "c", "d", "e", "f", "g", "h", "i", "j", "k", "l", "m",
     "n", "o", "p", "q", "r", "s", "t", "u", "v", "w", "x", "y", "z",
     "A", "B", "C", "D", "E", "F", "G", "H", "I", "J", "K", "L", "M",
     "N", "O", "P", "Q", "R", "S", "T", "U", "V", "W", "X", "Y", "Z",
     "0", "1", "2", "3", "4", "5", "6", "7", "8", "9", "_", ".", "-"}

\* two characters equal up to the case of an ASCII letter
SameIgnoringCase(a, b) ==
    \/ a = b
    \/ \E i \in 1..26 : {a, b} = {LowerLetters[i], UpperLetters[i]}

EqualsIgnoringCase(cs, ds) ==
    Len(cs) = Len(ds) /\ \A i \in 1..Len(cs) : SameIgnoringCase(cs[i], ds[i])

\* the documented rules a candidate violates, by number
ViolatedNameRules(n) ==
    IF n.kind # "string" THEN {1}
    ELSE {k \in {1} : Len(n.chars) = 0}
      \cup {k \in {2} : Len(n.chars) < 1 \/ Len(n.chars) > 214}
      \cup {k \in {3} : \E i \in 1..Len(n.chars) : n.chars[i] \notin AllowedNameChars}
      \cup {k \in {4} : Len(n.chars) > 0 /\ n.chars[1] \in {".", "-"}}
      \cup {k \in {5} : \E i \in 1..Len(reservedNames) :
                            EqualsIgnoringCase(n.chars, reservedNames[i])}

Lowest(S) == CHOOSE k \in S : \A m \in S : k <= m

\* the message of a rule for candidate n
NameRuleMsg(k, n) ==
    CASE k = 1 -> RequiredMsg
      [] k = 2 -> TooLongMsg
      [] k = 3 -> CharsMsg
      [] k = 4 -> LeadingMsg
      [] k = 5 -> ReservedMsg(n.chars)

FailsFast(r, n) ==
    IF ViolatedNameRules(n) = {} THEN r.valid = TRUE
    ELSE /\ r.valid = FALSE
         /\ r.error = NameRuleMsg(Lowest(ViolatedNameRules(n)), n)

\* C10: validateProjectName fails fast in rule order: the single error is the
\* message of the lowest-numbered violated rule among (1) non-empty string,
\* (2) length in [1,214], (3) only [A-Za-z0-9_.-], (4) no leading '.' or '-',
\* (5) not reserved; the result is valid exactly when no rule is violated.
C10_FailFastInRuleOrder ==
    /\ NameRan => FailsFast(nameValidation.value, name)
    /\ NameRanLegacy => FailsFast(nameValidationLegacy.value, name)

\* an over-long name with a leading dot or hyphen is told only that it is
\* too long
C10_Witness ==
    /\ NameRan /\ NameRanLegacy
    /\ {2, 4} \subseteq ViolatedNameRules(name)
    /\ nameValidation.value.error = TooLongMsg

\* a short name violating rules 3 and 4 is told about its characters
C10_WitnessChars ==
    /\ NameRan /\ name.kind = "string"
    /\ ViolatedNameRules(name) = {3, 4}
    /\ nameValidation.value.error = CharsMsg


NameRes       == nameValidation.value
NameResLegacy == nameValidationLegacy.value

\* the candidate is a string equal, ignoring case, to a reserved entry
IsReservedName(n) ==
    n.kind = "string"
      /\ \E i \in 1..Len(reservedNames) : EqualsIgnoringCase(n.chars, reservedNames[i])

\* C11 as stated: every name equal, ignoring case, to a reserved entry is
\* rejected with the '"<name>" is a reserved name ...' error, '.git' and
\* '.env' included.
C11_Original ==
    /\ (NameRan /\ IsReservedName(name))
         => (NameRes.valid = FALSE /\ NameRes.error = ReservedMsg(name.chars))
    /\ (NameRanLegacy /\ IsReservedName(name))
         => (NameResLegacy.valid = FALSE
             /\ NameResLegacy.error = ReservedMsg(name.chars))

ReservedRejected(r, n) ==
    /\ r.valid = FALSE
    /\ r.error = IF n.chars[1] = "." THEN LeadingMsg ELSE ReservedMsg(n.chars)

\* C11, amended: every name equal, ignoring case, to a reserved entry is
\* rejected (valid = false); the error is the '"<name>" is a reserved name ...'
\* message for the entries that do not start with a dot (so 'SRC' and 'src'
\* both get it), and 'Project name cannot start with a dot or hyphen.' for
\* '.git' and '.env', which the leading-character rule rejects first.
C11_ReservedNamesRejected ==
    /\ (NameRan /\ IsReservedName(name)) => ReservedRejected(NameRes, name)
    /\ (NameRanLegacy /\ IsReservedName(name)) => ReservedRejected(NameResLegacy, name)

C11_Witness ==
    /\ NameRan /\ NameRanLegacy
    /\ name = NameString(<<"S", "R", "C">>)
    /\ NameRes = [valid |-> FALSE,
                  error |-> <<"\"", "S", "R", "C",
                              "\" is a reserved name and cannot be used as a project name.">>]

C11_WitnessDotGit ==
    /\ NameRan /\ name = NameString(<<".", "G", "I", "T">>)
    /\ NameRes.error = LeadingMsg

\* the candidate satisfies the character, leading-character and reserved rules
PassesRules345(n) == ViolatedNameRules(n) \cap {3, 4, 5} = {}

LengthBoundary(r, n) ==
    /\ (Len(n.chars) >= 1 /\ Len(n.chars) <= 214 /\ PassesRules345(n))
         => r.valid = TRUE
    /\ Len(n.chars) >= 215
         => (r.valid = FALSE /\ r.error = TooLongMsg)

\* C12: every name of 1..214 characters that satisfies the character,
\* leading-character and reserved-name rules is valid (a 214-character one in
\* particular), and every name of 215 or more characters is invalid with
\* 'Project name is too long (max 214 characters).' whatever its characters.
C12_LengthBoundary ==
    /\ (NameRan /\ name.kind = "string") => LengthBoundary(NameRes, name)
    /\ (NameRanLegacy /\ name.kind = "string") => LengthBoundary(NameResLegacy, name)

C12_Witness ==
    /\ NameRan /\ NameRanLegacy /\ name.kind = "string"
    /\ Len(name.chars) = 214 /\ NameRes.valid /\ NameResLegacy.valid

C12_WitnessTooLong ==
    /\ NameRan /\ name.kind = "string" /\ Len(name.chars) = 215
    /\ name.chars[1] = " " /\ NameRes.error = TooLongMsg

NeverEmptyMsg(r) == r.valid = FALSE => r.error # EmptyMsg

\* C13: the 0-character string and every non-string value get valid = false
\* with 'Project name is required and must be a string.'; 'Project name cannot
\* be empty.' is never returned for any input.
C13_EmptyOrNonString ==
    /\ NameRan => /\ (name.kind # "string" \/ name.chars = <<>>)
                       => NameRes = [valid |-> FALSE, error |-> RequiredMsg]
                  /\ NeverEmptyMsg(NameRes)
    /\ NameRanLegacy
               => /\ (name.kind # "string" \/ name.chars = <<>>)
                       => NameResLegacy = [valid |-> FALSE, error |-> RequiredMsg]
                  /\ NeverEmptyMsg(NameResLegacy)

C13_Witness ==
    /\ NameRan /\ NameRanLegacy
    /\ name = NameString(<<>>)
    /\ NameRes.error = RequiredMsg /\ NameResLegacy.error = RequiredMsg

C13_WitnessObject ==
    /\ NameRan /\ name.kind = "object" /\ NameRes.error = RequiredMsg

HasForeignChar(n) == \E i \in 1..Len(n.chars) : n.chars[i] \notin AllowedNameChars

CharacterRule(r, n) ==
    /\ (Len(n.chars) >= 1 /\ Len(n.chars) <= 214 /\ HasForeignChar(n))
         => (r.valid = FALSE /\ r.error = CharsMsg)
    /\ (~HasForeignChar(n) /\ r.valid = FALSE) => r.error # CharsMsg

\* C14: every non-empty name of at most 214 characters with a character
\* outside [A-Za-z0-9_.-] is rejected with the 'can only contain letters,
\* numbers, hyphens, underscores, and dots' message; a name made only of
\* those characters never gets that message.
C14_CharacterClass ==
    /\ (NameRan /\ name.kind = "string") => CharacterRule(NameRes, name)
    /\ (NameRanLegacy /\ name.kind = "string") => CharacterRule(NameResLegacy, name)

C14_Witness ==
    /\ NameRan /\ NameRanLegacy
    /\ name = NameString(<<"a", "/", "Z">>)
    /\ NameRes.error = CharsMsg /\ NameResLegacy.error = CharsMsg

\* C15 as stated: the result has the shape {valid, error}; rejected: valid =
\* false and error a non-empty string; accepted: valid = true and error
\* present and null.
C15_Original ==
    /\ NameRan => /\ "error" \in DOMAIN NameRes
                  /\ NameRes.valid => NameRes.error = JSNull
    /\ NameRanLegacy => /\ "error" \in DOMAIN NameResLegacy
                        /\ NameResLegacy.valid => NameResLegacy.error = JSNull

\* a message with some text in it
NonEmptyText(msg) == Len(msg) >= 1 /\ \E i \in 1..Len(msg) : msg[i] # ""

NameShapeOk(r) ==
    IF r.valid
    THEN DOMAIN r = {"valid"}
    ELSE DOMAIN r = {"valid", "error"} /\ NonEmptyText(r.error)

\* C15, amended: a rejecting result of validateProjectName is {valid: false,
\* error} with error a non-empty string; an accepting result is {valid: true}
\* with no error field at all (reading it gives undefined, not null).
C15_NameResultShape ==
    /\ NameRan => NameShapeOk(NameRes)
    /\ NameRanLegacy => NameShapeOk(NameResLegacy)

C15_Witness ==
    /\ NameRan /\ NameRanLegacy
    /\ name = NameString(<<"m", "y", "-", "a", "p", "p", "_", "2">>)
    /\ NameRes = [valid |-> TRUE] /\ NameResLegacy = [valid |-> TRUE]


\* C16: validateOptions and validateProjectName never throw: every call, on a
\* configuration with missing or wrongly typed fields and on a configuration
\* argument that is itself null or undefined, returns a structured result.
C16_NeverThrows ==
    /\ validation.status # "threw"
    /\ validationLegacy.status # "threw"
    /\ nameValidation.status # "threw"
    /\ nameValidationLegacy.status # "threw"


-----------------------------------------------------------------------------
(* Properties of validateEnvironmentSetup *)

EnvRan == envValidation.status = "returned"
EnvRes == envValidation.value

\* C17: validateEnvironmentSetup returns valid = true exactly when the major
\* component of the runtime version is >= 16; below 16, requirements holds
\* exactly one message and error = requirements[0]; from 16 on,
\* requirements = [] and error = null.
C17_NodeMajorAtLeast16 ==
    EnvRan =>
      /\ EnvRes.valid = (runtime.major >= 16)
      /\ runtime.major < 16
           => (Len(EnvRes.requirements) = 1 /\ EnvRes.error = EnvRes.requirements[1])
      /\ runtime.major >= 16
           => (EnvRes.requirements = <<>> /\ EnvRes.error = JSNull)

\* Node 16.0.0 itself is accepted
C17_Witness ==
    /\ EnvRan /\ runtime.major = 16 /\ runtime.minor = 0
    /\ EnvRes.valid /\ EnvRes.requirements = <<>>

C17_WitnessOld ==
    /\ EnvRan /\ runtime.major = 9 /\ runtime.minor = 16
    /\ ~EnvRes.valid
    /\ EnvRes.error = <<"Node.js 16 or higher is required. Current version: ",
                        "v", "9", ".", "1", "6", ".", "0">>


-----------------------------------------------------------------------------
(* Properties of getRecommendations *)

RecRan       == recommendations.status = "returned"
RecRanLegacy == recommendationsLegacy.status = "returned"
Recs         == recommendations.value
RecsLegacy   == recommendationsLegacy.value
Accepted       == Ran /\ Res.valid
AcceptedLegacy == RanLegacy /\ ResLegacy.valid

TrpcAdvice     == "Consider using tRPC for better type safety between frontend and backend."
TailwindAdvice == "Tailwind CSS can significantly speed up your styling workflow."
NextAuthAdvice == "NextAuth.js provides easy authentication setup for Next.js applications."
PnpmAdvice     == "Consider using pnpm or yarn for faster installs and better dependency management."
NextTrpcNote     == "Next.js with tRPC provides excellent full-stack type safety."
TailwindNextNote == "Tailwind CSS integrates seamlessly with Next.js for rapid UI development."
SqliteDrizzleNote  == "SQLite with Drizzle is a great choice for development and small applications."
PostgresPrismaNote == "PostgreSQL with Prisma is an excellent choice for production applications."

\* the condition under which each message is owed for the fields f
Owed(f, msg) ==
    CASE msg = TrpcAdvice     -> f.frontend = JSString("react") /\ f.trpc = JSFalse
      [] msg = TailwindAdvice -> f.tailwind = JSFalse
      [] msg = NextAuthAdvice -> f.auth = JSFalse /\ f.frontend = JSString("nextjs")
      [] msg = PnpmAdvice     -> f.packageManager = JSString("npm")
      [] msg = NextTrpcNote   -> f.frontend = JSString("nextjs") /\ f.trpc = JSTrue
      [] msg = TailwindNextNote   -> f.tailwind = JSTrue /\ f.frontend = JSString("nextjs")
      [] msg = SqliteDrizzleNote  -> f.database = JSString("sqlite") /\ f.orm = JSString("drizzle")
      [] msg = PostgresPrismaNote -> f.database = JSString("postgresql") /\ f.orm = JSString("prisma")

\* the messages of `order` that are owed for f, in that order
OwedIn(order, f) == SelectSeq(order, LAMBDA msg : Owed(f, msg))

FourSuggestions == <<TrpcAdvice, TailwindAdvice, NextAuthAdvice, PnpmAdvice>>
SourceOrder ==
    <<TrpcAdvice, TailwindAdvice, NextAuthAdvice, PnpmAdvice, NextTrpcNote, TailwindNextNote>>
SourceOrderLegacy ==
    <<TrpcAdvice, SqliteDrizzleNote, PostgresPrismaNote, TailwindAdvice, NextAuthAdvice,
      PnpmAdvice>>

\* each of the four suggestions is present exactly when its condition holds
FourIff(recs, f) ==
    \A i \in 1..4 : (FourSuggestions[i] \in Range(recs)) <=> Owed(f, FourSuggestions[i])

\* getRecommendations assigns nothing outside its own array
RecommendationsArePure ==
    (recommendations' # recommendations \/ recommendationsLegacy' # recommendationsLegacy)
        => UNCHANGED <<config, validation, validationLegacy>>

\* a second call on the same configuration returns the same list
RecommendationsAreStable ==
    /\ (RecRan /\ recommendations'.status = "returned" /\ config' = config)
          => recommendations'.value = Recs
    /\ (RecRanLegacy /\ recommendationsLegacy'.status = "returned" /\ config' = config)
          => recommendationsLegacy'.value = RecsLegacy

\* C18 as stated: for a valid configuration the list holds the four named
\* suggestions whose condition holds, in source order, and nothing else.
C18_Original ==
    /\ (Accepted /\ RecRan) => Recs = OwedIn(FourSuggestions, Cfg)
    /\ (AcceptedLegacy /\ RecRanLegacy) => RecsLegacy = OwedIn(FourSuggestions, Cfg)

C18_Advice ==
    /\ (Accepted /\ RecRan) =>
          (FourIff(Recs, Cfg) /\ Recs = OwedIn(SourceOrder, Cfg))
    /\ (AcceptedLegacy /\ RecRanLegacy) =>
          (FourIff(RecsLegacy, Cfg) /\ RecsLegacy = OwedIn(SourceOrderLegacy, Cfg))

\* C18: for every valid configuration getRecommendations returns, in source
\* order and identically on repeated calls, the tRPC suggestion iff frontend =
\* react and trpc = false, the Tailwind suggestion iff tailwind = false, the
\* NextAuth suggestion iff auth = false and frontend = nextjs, the pnpm/yarn
\* suggestion iff packageManager = npm, and besides these only the stack notes
\* of its generation (Next.js with tRPC, Tailwind with Next.js; SQLite with
\* Drizzle, PostgreSQL with Prisma), each iff its own condition holds; it never
\* changes the configuration or its validation result.
C18_Recommendations ==
    /\ []C18_Advice
    /\ [][RecommendationsArePure /\ RecommendationsAreStable]_vars

\* a valid Next.js configuration on npm without Tailwind and auth: three of the
\* four suggestions and one stack note, in source order
C18_Witness ==
    /\ Accepted /\ RecRan
    /\ Recs = <<TailwindAdvice, NextAuthAdvice, PnpmAdvice, NextTrpcNote>>

C18_WitnessLegacy ==
    /\ AcceptedLegacy /\ RecRanLegacy
    /\ RecsLegacy = <<TrpcAdvice, SqliteDrizzleNote, TailwindAdvice>>


-----------------------------------------------------------------------------
(* Properties of the command-line programs *)

GenerateCalled  == generateCall.status = "called"
CliValidated    == cliValidation.status = "returned"
CliAccepted     == CliValidated /\ cliValidation.value.valid
CliRejected     == CliValidated /\ ~cliValidation.value.valid
LastLine        == stdout[Len(stdout)]

\* C19: in every CLI entry point generateProject is called only with a
\* configuration for which validateOptions has returned valid = true, and when
\* validateOptions returns valid = false the process prints the error and
\* exits with code 1 without calling generateProject or installDependencies.
C19_ValidatedBeforeUse ==
    /\ GenerateCalled => (CliAccepted /\ generateCall.config = cliConfig)
    /\ CliRejected =>
         /\ pc = "exited" /\ exitCode = "1"
         /\ Len(stdout) > 0
         /\ LastLine = "Configuration error: " \o cliValidation.value.error.val
         /\ ~GenerateCalled
         /\ generation = NotCalled /\ installation = NotCalled

\* the same statement for main() of src/unnamed/part_006 alone
C19_ValidatedInPart006 == entryPoint = "part_006" => C19_ValidatedBeforeUse

\* C20: the project name with which the CLI creates the project directory
\* always satisfies the project-name rules (non-empty, at most 214 characters,
\* only [A-Za-z0-9_.-], no leading '.' or '-', not reserved), whether it came
\* from the command-line argument or from the interactive prompt.
C20_CreatedNameIsValid ==
    GenerateCalled => ViolatedNameRules(generateCall.projectName) = {}


\* C21: the configuration obtained by accepting every default of the
\* interactive prompts (frontend nextjs, database postgresql, orm prisma, trpc
\* true, auth true, tailwind true, packageManager npm) is accepted by
\* validateOptions, and the prompt defaults equal the defaults of the README's
\* option table.
C21_DefaultsAccepted ==
    /\ PromptDefaults = ReadmeDefaults
    /\ (entryPoint = "part_006" /\ CliValidated
          /\ cliConfig = ConfigObject(PromptAnswers(PromptDefaults, DOMAIN PromptDefaults)))
         => CliAccepted

\* the all-defaults run under the validator that also checks database and orm
C21_Witness ==
    /\ entryPoint = "part_006" /\ validatorModule = "part_001"
    /\ cliConfig = ConfigObject(ReadmeDefaults)
    /\ CliAccepted /\ pc = "generate"

C21_WitnessCurrent ==
    /\ entryPoint = "part_006" /\ validatorModule = "lib/validator.js"
    /\ cliConfig = ConfigObject(ReadmeDefaults)
    /\ CliAccepted /\ pc = "generate"


-----------------------------------------------------------------------------
(* Properties of the generators *)

GenReturned == genResult.status = "returned"
GenThrew    == genResult.status = "threw"
GenFields   == genConfig.fields

\* C22: for every configuration, a project generated by
\* bin/create-kurdemy-app.js passes verifyProjectStructure: after a successful
\* run the project directory contains every required file, and the root
\* package.json has a name and scripts.
C22_GeneratedProjectVerifies ==
    (generator = "bin" /\ GenReturned) =>
        /\ requiredFiles \subseteq genFiles
        /\ packageJson # JSUndefined
        /\ NameTruthy(packageJson.name) /\ packageJson.scripts


Templated == generator # "bin"

\* the place of each step in the documented sequence
StepRank(step) ==
    CASE step = "ensureDir"             -> 1
      [] step = "createFolderStructure" -> 2
      [] step = "generatePackageJson"   -> 3
      [] step = "generateEnvFiles"      -> 4
      [] step = "generateNestJSFiles"   -> 5
      [] step \in {"generateNextJSFiles", "generateReactFiles"} -> 6
      [] step = "generateDatabaseFiles" -> 7
      [] step = "generateTRPCFiles"     -> 8
      [] step = "generateAuthFiles"     -> 9
      [] step = "generateTailwindFiles" -> 10
      [] step = "generateConfigFiles"   -> 11
      [] step = "generateDockerFiles"   -> 12
      [] step = "generateReadme"        -> 13

\* the ranks no run may skip
UnconditionalRanks == {1, 2, 3, 4, 5, 6, 11, 13}

Started(step) == \E i \in 1..Len(genLog) : genLog[i] = step
RanksStarted  == {StepRank(genLog[i]) : i \in 1..Len(genLog)}

InDocumentedSequence ==
    /\ \A i, j \in 1..Len(genLog) : i < j => StepRank(genLog[i]) < StepRank(genLog[j])
    /\ \A k \in UnconditionalRanks :
         (\E q \in RanksStarted : q > k) => k \in RanksStarted

\* once a step of rank 3 or more has started, the folder structure is there
FoldersBeforeFiles ==
    (\E q \in RanksStarted : q >= 3) =>
        {<<>>, <<"src">>, <<"src", "backend">>, <<"src", "frontend">>,
         <<"src", "shared">>} \subseteq genDirs

ReturnsAfterReadme ==
    GenReturned => (Len(genLog) > 0 /\ genLog[Len(genLog)] = "generateReadme" /\ ~genRunning)

\* a step starts only when no step is awaited and nothing has been thrown
OneStepAtATime ==
    genLog' # genLog =>
        /\ ~genRunning /\ ~GenThrew
        /\ Len(genLog') = Len(genLog) + 1
        /\ SubSeq(genLog', 1, Len(genLog)) = genLog

C23_Steps ==
    Templated => (InDocumentedSequence /\ FoldersBeforeFiles /\ ReturnsAfterReadme)

\* C23: generateProject executes its steps strictly in sequence, each awaited
\* before the next starts: project directory, folder structure, package.json,
\* env files, NestJS backend, frontend, (database files), tRPC, auth, Tailwind,
\* config files, (Docker files), README; no file-generating step starts before
\* createFolderStructure has completed, and a step that throws prevents every
\* later step from running.
C23_SequentialSteps ==
    /\ []C23_Steps
    /\ [][Templated => OneStepAtATime]_vars

\* a full run of lib/generator.js with every option on: thirteen steps
C23_Witness ==
    /\ generator = "lib/generator.js" /\ GenReturned
    /\ Len(genLog) = 13
    /\ genLog[7] = "generateDatabaseFiles" /\ genLog[12] = "generateDockerFiles"

\* part_000 stopped by a throw in the NestJS step
C23_WitnessThrow ==
    /\ generator = "part_000" /\ GenThrew
    /\ Len(genLog) = 5 /\ genLog[5] = "generateNestJSFiles"


TrpcFolders ==
    {<<"src", "shared", "trpc">>, <<"src", "backend", "trpc">>, <<"src", "frontend", "trpc">>}

FoldersCreated == \E q \in RanksStarted : q >= 3

\* C24: for every configuration generateProject invokes exactly one of the two
\* frontend generators (generateNextJSFiles iff frontend = nextjs, otherwise
\* generateReactFiles), and invokes generateTRPCFiles, generateAuthFiles and
\* generateTailwindFiles if and only if trpc, auth and tailwind respectively
\* are true; createFolderStructure creates the three trpc folders iff trpc is
\* true.
C24_ConditionalSteps ==
    Templated =>
      /\ Started("generateNextJSFiles")   => GenFields.frontend = JSString("nextjs")
      /\ Started("generateReactFiles")    => GenFields.frontend # JSString("nextjs")
      /\ Started("generateTRPCFiles")     => GenFields.trpc = JSTrue
      /\ Started("generateAuthFiles")     => GenFields.auth = JSTrue
      /\ Started("generateTailwindFiles") => GenFields.tailwind = JSTrue
      /\ GenReturned =>
           /\ Started("generateNextJSFiles")   <=> GenFields.frontend = JSString("nextjs")
           /\ Started("generateReactFiles")    <=> ~Started("generateNextJSFiles")
           /\ Started("generateTRPCFiles")     <=> GenFields.trpc = JSTrue
           /\ Started("generateAuthFiles")     <=> GenFields.auth = JSTrue
           /\ Started("generateTailwindFiles") <=> GenFields.tailwind = JSTrue
      /\ FoldersCreated =>
           IF GenFields.trpc = JSTrue THEN TrpcFolders \subseteq genDirs
           ELSE TrpcFolders \cap genDirs = {}

\* a React run with tRPC and without auth and Tailwind
C24_Witness ==
    /\ Templated /\ GenReturned
    /\ GenFields.frontend = JSString("react") /\ GenFields.trpc = JSTrue
    /\ GenFields.auth = JSFalse /\ GenFields.tailwind = JSFalse
    /\ Started("generateReactFiles") /\ Started("generateTRPCFiles")
    /\ ~Started("generateAuthFiles") /\ ~Started("generateTailwindFiles")
    /\ TrpcFolders \subseteq genDirs

C24_WitnessNoTrpc ==
    /\ Templated /\ GenReturned /\ GenFields.trpc = JSFalse
    /\ Started("generateNextJSFiles") /\ TrpcFolders \cap genDirs = {}


-----------------------------------------------------------------------------
(* Properties of the main flow of src/unnamed/part_006 *)

InPart006      == entryPoint = "part_006"
SuccessPrinted ==
    \E i \in 1..Len(stdout) : stdout[i] = "Your Kurdemy app has been created successfully!"
Generated      == generation.status = "returned"
Installed      == installation.status = "returned"

\* C25: in the CLI main flow installDependencies is started only after
\* generateProject has completed successfully; if generateProject or
\* installDependencies fails, the process exits with code 1 and the success
\* message is never printed; the success message is printed only after both
\* have succeeded.
C25_InstallAfterGenerate ==
    InPart006 =>
      /\ installation # NotCalled => Generated
      /\ (generation.status = "threw" \/ installation.status = "threw")
           => (pc = "exited" /\ exitCode = "1" /\ ~SuccessPrinted)
      /\ SuccessPrinted => (Generated /\ Installed)
      /\ pc = "done" => SuccessPrinted

\* generation succeeded and the install failed
C25_Witness ==
    /\ InPart006 /\ Generated /\ installation.status = "threw"
    /\ exitCode = "1" /\ ~SuccessPrinted

C25_WitnessSuccess ==
    InPart006 /\ Generated /\ Installed /\ SuccessPrinted /\ exitCode = "0"


\* C26: when validateOptions rejects the collected configuration, the CLI
\* exits having left the file system unchanged: no pre-existing project
\* directory has been deleted and nothing has been created on any path that
\* ends in the validation-failure exit.
C26_RejectionLeavesFilesAlone ==
    (InPart006 /\ CliRejected) =>
        (~removedDirectory /\ ~GenerateCalled /\ generation = NotCalled)

Asked     == overwrite # JSUndefined
Confirmed == IF InPart006 THEN overwrite = JSTrue
             ELSE overwrite \in {JSString("y"), JSString("Y")}

\* C27: an existing target directory is removed only after the user has
\* explicitly confirmed the overwrite; if the directory exists and the user
\* declines (or gives any answer other than confirmation), the process exits
\* with code 0 and neither deletes the directory nor calls generateProject.
C27_RemoveOnlyIfConfirmed ==
    /\ removedDirectory => (Asked /\ Confirmed)
    /\ (Asked /\ ~Confirmed) =>
         /\ pc = "exited" /\ exitCode = "0"
         /\ ~removedDirectory /\ dirExists
         /\ ~GenerateCalled /\ generation = NotCalled

\* bin: the user answered "yes", which is not the confirmation 'y'
C27_Witness ==
    /\ entryPoint = "bin" /\ overwrite = JSString("yes")
    /\ pc = "exited" /\ exitCode = "0" /\ dirExists /\ ~removedDirectory

C27_WitnessConfirmed ==
    /\ InPart006 /\ overwrite = JSTrue /\ removedDirectory /\ GenerateCalled


\* C28: in the standalone generateProject of bin/create-kurdemy-app.js, for
\* every configuration (frontend nextjs or react, any trpc/tailwind), every
\* file is written into a directory that generateProject has already created,
\* so the generation completes without a missing-directory failure for both
\* frontends.
C28_NoMissingDirectory ==
    generator = "bin" =>
        /\ ~GenThrew
        /\ \A path \in genFiles : SubSeq(path, 1, Len(path) - 1) \in genDirs


Collected == InPart006 /\ pc \in {"validate", "generate", "install", "done", "exited"}
                /\ cliConfig # ConfigObject(NoFields)

\* C29: every configuration the interactive collector can produce has all
\* enumerated fields inside their allowed sets and trpc/auth/tailwind as
\* strict booleans, so validateOptions can reject a collected configuration
\* only through a cross-field compatibility rule (auth with react, or drizzle
\* with sqlserver), never through a domain error.
C29_CollectedInDomain ==
    /\ Collected => DomainViolationsLegacy(cliConfig.fields) = {}
    /\ (InPart006 /\ CliRejected) =>
         /\ Range(cliValidation.value.errors) \subseteq {AuthFrontendMsg, OrmDatabaseMsg}
         /\ AuthRuleViolated(cliConfig.fields) \/ OrmRuleViolated(cliConfig.fields)

\* drizzle on SQL Server with Next.js, rejected by the validator of part_001
C29_Witness ==
    /\ InPart006 /\ validatorModule = "part_001" /\ CliRejected
    /\ cliValidation.value.errors = <<OrmDatabaseMsg>>
    /\ cliConfig.fields.frontend = JSString("nextjs")

C29_WitnessAuth ==
    /\ InPart006 /\ CliRejected
    /\ cliValidation.value.errors = <<AuthFrontendMsg>>


-----------------------------------------------------------------------------
(* Properties of the installer *)

InstallerDone   == installerResult # NotCalled
ScriptFailed    == execaOutcome # "ok"
ReportsByResult == installerCall.fn \in {"buildProject", "runLinting", "runTypeCheck"}

\* C30: buildProject, runLinting and runTypeCheck report failure: each returns
\* false when the underlying package-manager script fails and true only when
\* it succeeded, while installDependencies signals a failed install by
\* throwing 'Failed to install dependencies: ...'.
C30_FailuresReported ==
    InstallerDone =>
      /\ ReportsByResult =>
           installerResult = Returned(IF ScriptFailed THEN JSFalse ELSE JSTrue)
      /\ (installerCall.fn = "installDependencies" /\ ScriptFailed) =>
           installerResult = Threw("Failed to install dependencies: " \o execaOutcome)
      /\ (installerCall.fn = "installDependencies" /\ ~ScriptFailed) =>
           installerResult.status = "returned"

\* the part of C30 about installDependencies alone
C30_InstallThrows ==
    (InstallerDone /\ installerCall.fn = "installDependencies") =>
        IF ScriptFailed
        THEN installerResult = Threw("Failed to install dependencies: " \o execaOutcome)
        ELSE installerResult.status = "returned"

=============================================================================
